---------------------------- MODULE Spec2Model ----------------------------
(***************************************************************************)
(* A model of flickrmirrorer.py: the reconciliation of a local mirror      *)
(* (photostream files and sidecars, album directories of symlinks, the     *)
(* "Not in any album" directory, the collection tree) against the remote   *)
(* account.  The file system is modelled by value; every step of the       *)
(* program that changes the file system is one action.                     *)
(***************************************************************************)
EXTENDS Integers, Sequences, FiniteSets, TLC

VARIABLES
    remote,     \* what the provider answers: lastupdate per item, albums, unassigned pages, tree
    cfg,        \* args of the current run: delete_unknown, ignore_photos, ignore_videos, include_views
    run,        \* number of runs started
    pc,         \* position of the single thread of control
    dirs,       \* the directories of the mirror root that exist
    ps,         \* photostream directory: basename -> file
    tmp,        \* the file at self.tmp_filename
    albums,     \* Albums directory: entry name -> entry
    nia,        \* "Not in any album" directory: the symlinks in it
    coll,       \* Collections directory tree: path -> entry
    stats,      \* the statistics counters of the FlickrMirrorer object
    alb,        \* locals of _mirror_albums / _mirror_album
    nf,         \* locals of _create_not_in_any_album_dir
    cs,         \* locals of _mirror_collections and the call stack of _mirror_collection
    dl,         \* locals of _download_photo
    pr,         \* locals of _delete_unknown_files
    lst,        \* locals of _download_all_photos
    wj,         \* locals of _write_json_if_different
    hist,       \* history of the current run (what was written, which transport calls failed)
    net,        \* the clock, the rate limiters of the wrappers and the outbound calls made
    ref         \* the files an uninterrupted run left, kept for comparison

vars == <<remote, cfg, run, pc, dirs, ps, tmp, albums, nia, coll, stats,
          alb, nf, cs, dl, pr, lst, wj, hist, net, ref>>

fsvars == <<dirs, ps, tmp, albums, nia, coll>>

-----------------------------------------------------------------------------
(* Bounds of the model *)

\* Runs of the program made one after the other on the same mirror root.
MaxRuns == 2

\* Chunks that request.iter_content yields for one content file.
NChunks == 2

\* NUM_PHOTOS_PER_BATCH: the page size of every listing call (500 in the
\* source, line 90); scaled down so that multi-page listings are reached.
NUM_PHOTOS_PER_BATCH == 2

-----------------------------------------------------------------------------
(* The remote account *)

ItemIds == {1, 12, 2, 3}

\* photo['media']
Media == (1 :> "video") @@ (12 :> "photo") @@ (2 :> "photo") @@ (3 :> "photo")

\* photo['originalformat']
OriginalFormat == (1 :> "mov") @@ (12 :> "jpg") @@ (2 :> "png") @@ (3 :> "gif")

\* A datetime.datetime: the date as YYYYMMDD and the time of day as hhmmss.
Instant(date, time) == [date |-> date, time |-> time]

\* photo['datetaken'], as the instant dateutil.parser.parse reads from it
DateTaken ==
    (1 :> Instant(20140101, 0)) @@ (12 :> Instant(20140202, 0))
       @@ (2 :> Instant(20140303, 0)) @@ (3 :> Instant(20140404, 0))

Versions == {1, 2}

NoFile == [kind |-> "none"]

\* A record of photosets.getPhotos / people.getPhotos, asked with the extras
\* of lines 338-339 and 569-570.
PhotoRecord(i, upd) ==
    [id |-> i, media |-> Media[i], originalformat |-> OriginalFormat[i],
     title |-> <<"t">>, lastupdate |-> upd[i], datetaken |-> DateTaken[i],
     datetakenunknown |-> "0"]

\* A record of photos.getNotInSet, asked with extras='original_format,media'
\* (line 672): the date and lastupdate fields are not requested.
NotInSetRecord(i) ==
    [id |-> i, media |-> Media[i], originalformat |-> OriginalFormat[i],
     title |-> <<"t">>]

IsEligible(photo, c) ==
    \/ photo.media = "photo" /\ ~c.ignore_photos
    \/ photo.media = "video" /\ ~c.ignore_videos

-----------------------------------------------------------------------------
(* Names *)

\* urllib.parse.quote(title, " ',"): every character outside the unreserved
\* set and the three safe ones is percent-escaped, the slash included.
quote(title) ==
    CASE title = "a/b" -> "a%2Fb"
      [] OTHER -> title

\* '%s - %s' % (safe_title, id_)
_get_album_dirname(id_, title) == [title |-> quote(title), id |-> id_]

_get_collection_dirname(id_, title) == [title |-> quote(title), id |-> id_]

\* A basename in the photostream directory: "<id>.<ext>" or
\* "<id>.<ext>.metadata".
Basename(i, ext) == [id |-> i, ext |-> ext, meta |-> FALSE]

MetadataBasename(b) == [b EXCEPT !.meta = TRUE]

\* The decimal digits of a are the leading digits of b.
RECURSIVE DigitPrefix(_, _)
DigitPrefix(a, b) ==
    IF a = b THEN TRUE
    ELSE IF b < 10 THEN FALSE
    ELSE DigitPrefix(a, b \div 10)

\* glob.iglob(os.path.join(photostream_dir, id) + '*'), without the names
\* that end in 'metadata'.
GlobMatches(files, i) ==
    {n \in DOMAIN files : DigitPrefix(i, n.id) /\ ~n.meta}

\* len(str(n)) for n >= 0
RECURSIVE StrLen(_)
StrLen(n) == IF n < 10 THEN 1 ELSE 1 + StrLen(n \div 10)

-----------------------------------------------------------------------------
(* JSON *)

\* The order in which json.dump writes the keys of a dict built by this
\* program or by flickrapi.
KeyOrder ==
    <<"id", "media", "originalformat", "title", "lastupdate", "datetaken",
      "datetakenunknown", "photos", "count_views",
      "flickrmirrorer_album_metadata_version", "set", "collection">>

\* json.dump: the text, as the sequence of its key/value pairs.
json_dump(data) ==
    LET keys == SelectSeq(KeyOrder, LAMBDA k : k \in DOMAIN data)
    IN  [n \in 1..Len(keys) |-> <<keys[n], data[keys[n]]>>]

\* json.load: the dict of a text; of two pairs with one key the later wins.
json_load(text) ==
    LET keys == {text[n][1] : n \in 1..Len(text)}
        last(k) == CHOOSE n \in 1..Len(text) :
                      /\ text[n][1] = k
                      /\ \A m \in 1..Len(text) : text[m][1] = k => m <= n
    IN  [k \in keys |-> text[last(k)][2]]

-----------------------------------------------------------------------------
(* What the provider holds *)

AlbumIds == {71, 72}

AlbumTitle == (71 :> "Trip") @@ (72 :> "a/b")

\* An entry of rsp['photosets']['photoset'] (photosets.getList).
AlbumRecord(a, r) ==
    [id |-> a, title |-> [_content |-> AlbumTitle[a]],
     photos |-> Len(r.members[a]), count_views |-> 0]

\* An entry of a collection's 'set' list (collections.getTree).
TreeAlbum(a) == [id |-> a, title |-> AlbumTitle[a]]

Leaf93 == [id |-> 93, title |-> "Leaf", set |-> <<TreeAlbum(71)>>]

Mid92 == [id |-> 92, title |-> "Mid", set |-> <<TreeAlbum(72)>>,
          collection |-> <<Leaf93>>]

Top91 == [id |-> 91, title |-> "Top", set |-> <<TreeAlbum(71), TreeAlbum(72)>>,
          collection |-> <<Mid92>>]

\* The same top collection after its child lost its own child and an album.
Top91b == [id |-> 91, title |-> "Top", set |-> <<TreeAlbum(72)>>,
           collection |-> <<[id |-> 92, title |-> "Mid", set |-> <<TreeAlbum(72)>>]>>]

Other94 == [id |-> 94, title |-> "Other"]

AllOnes == [i \in ItemIds |-> 1]

Account(albumList, m71, unassigned, tree) ==
    [upd |-> AllOnes, albums |-> albumList,
     members |-> (71 :> m71) @@ (72 :> <<2>>),
     notinset |-> unassigned, tree |-> tree]

\* The accounts the runs are made against.
RemoteChoices ==
    { Account(<<>>, <<>>, <<>>, <<>>),
      Account(<<71>>, <<12>>, <<>>, <<Other94>>),
      Account(<<71, 72>>, <<12, 1>>, <<>>, <<Top91, Other94>>),
      Account(<<71, 72>>, <<1, 12>>, <<>>, <<Top91b>>),
      Account(<<71>>, <<12, 1, 2>>, << <<1>>, <<2>> >>, <<>>) }

\* The argument sets the runs are made with (main, lines 944-994).
Args(du, ip, iv) ==
    [delete_unknown |-> du, ignore_photos |-> ip, ignore_videos |-> iv,
     include_views |-> TRUE, statistics |-> TRUE, now |-> Instant(20260101, 0)]

Configs ==
    { Args(FALSE, FALSE, FALSE), Args(TRUE, FALSE, FALSE),
      Args(TRUE, TRUE, FALSE), Args(FALSE, FALSE, TRUE),
      Args(TRUE, TRUE, TRUE) }

-----------------------------------------------------------------------------
(* The file system, by value *)

\* A file of the photostream directory or the temporary file.
File(data, now) == [data |-> data, mtime |-> now]

\* The content the media transport serves for a record.
RemoteContent(photo, r) == [item |-> photo.id, ver |-> r.upd[photo.id]]

\* The chunks written so far of a content: all of them for a complete file.
Partial(content, n) == [kind |-> "content", content |-> content, chunks |-> n]

Complete(content) == Partial(content, NChunks)

JsonFile(text) == [kind |-> "json", text |-> text]

NiaDir == "Not in any album"

\* An album or collection directory, freshly made.
EmptyDir == [kind |-> "dir", links |-> {}, meta |-> NoFile]

\* shutil.rmtree of a path of the Collections tree: the path and all below it.
IsUnder(p, q) == Len(q) >= Len(p) /\ SubSeq(q, 1, Len(p)) = p

\* A removal of the path alone, which leaves what is below it.
RmTree_flat(tree, p) == [q \in DOMAIN tree \ {p} |-> tree[q]]

RmTree(tree, p) == [q \in {x \in DOMAIN tree : ~IsUnder(p, x)} |-> tree[q]]

Remove(f, x) == [y \in DOMAIN f \ {x} |-> f[y]]

\* A removal that leaves the directory and its contents where they are.
_ensure_dir_doesnt_exist_noop(tree, path) == tree

\* _ensure_dir_doesnt_exist(path) on a directory of Albums.
_ensure_dir_doesnt_exist(tree, path) == Remove(tree, path)

\* _ensure_dir_exists(path): os.makedirs, EEXIST passed over, so that a
\* directory that exists keeps what it holds.
_ensure_dir_exists(tree, path) ==
    IF path \in DOMAIN tree THEN tree ELSE (path :> EmptyDir) @@ tree

\* The file a sidecar path names, NoFile when it does not exist.
ReadAt(t) ==
    CASE t.kind = "ps" ->
            IF t.name \in DOMAIN ps THEN ps[t.name].data ELSE NoFile
      [] t.kind = "album" ->
            IF t.name \in DOMAIN albums /\ albums[t.name].kind = "dir"
            THEN albums[t.name].meta ELSE NoFile
      [] t.kind = "coll" ->
            IF t.name \in DOMAIN coll /\ coll[t.name].kind = "dir"
            THEN coll[t.name].meta ELSE NoFile

\* A comparison of the text of the file with the text json.dump writes.
_is_file_different_bytes(file, data) ==
    IF file = NoFile THEN TRUE
    ELSE file.text # json_dump(data)

\* A comparison that reports a difference whatever the file holds.
_is_file_different_always(file, data) == TRUE

\* The decoded document differs from data, or there is no file (ENOENT).
_is_file_different(file, data) ==
    IF file = NoFile THEN TRUE
    ELSE json_load(file.text) # data

-----------------------------------------------------------------------------
(* get_photo_datetime *)

\* A title is the sequence of its characters.
Digit ==
    ("0" :> 0) @@ ("1" :> 1) @@ ("2" :> 2) @@ ("3" :> 3) @@ ("4" :> 4)
       @@ ("5" :> 5) @@ ("6" :> 6) @@ ("7" :> 7) @@ ("8" :> 8) @@ ("9" :> 9)

IsDigits(chars) == \A n \in 1..Len(chars) : chars[n] \in DOMAIN Digit

RECURSIVE Num(_)
Num(chars) ==
    IF chars = <<>> THEN 0
    ELSE 10 * Num(SubSeq(chars, 1, Len(chars) - 1)) + Digit[chars[Len(chars)]]

\* The regular expressions strptime makes of %m, %d, %H, %M and %S: the
\* alternatives of each in the order they are tried, as the number of
\* characters, the least and the greatest value, and the number of blanks
\* before the digits.  (%m is 1[0-2]|0[1-9]|[1-9], %d is
\* 3[01]|[12]\d|0[1-9]|[1-9]| [1-9], %H is 2[0-3]|[0-1]\d|\d, %M is
\* [0-5]\d|\d, %S is 6[0-1]|[0-5]\d|\d.)
Directives ==
    <<  << <<2, 1, 12, 0>>, <<1, 1, 9, 0>> >>,
        << <<2, 1, 31, 0>>, <<1, 1, 9, 0>>, <<2, 1, 9, 1>> >>,
        << <<2, 0, 23, 0>>, <<1, 0, 9, 0>> >>,
        << <<2, 0, 59, 0>>, <<1, 0, 9, 0>> >>,
        << <<2, 0, 61, 0>>, <<1, 0, 9, 0>> >>  >>

\* The choices of one alternative per field.
Alternatives == {alt \in [1..5 -> 1..3] : \A f \in 1..5 : alt[f] <= Len(Directives[f])}

\* Where field f (1 month .. 5 second) starts in the title when the fields
\* before it took the alternatives alt: after the four characters of the
\* year, and after the underscore for the fields of the time.
FieldStart(alt, f) ==
    LET len(g) == Directives[g][alt[g]][1]
        RECURSIVE before(_)
        before(g) == IF g = 0 THEN 0 ELSE before(g - 1) + len(g)
    IN  5 + before(f - 1) + (IF f > 2 THEN 1 ELSE 0)

FieldChars(title, alt, f) ==
    SubSeq(title, FieldStart(alt, f), FieldStart(alt, f) + Directives[f][alt[f]][1] - 1)

\* The digits of a field, after its blanks.
FieldDigits(title, alt, f) ==
    SubSeq(FieldChars(title, alt, f), Directives[f][alt[f]][4] + 1,
           Directives[f][alt[f]][1])

\* The choice alt of alternatives matches a prefix of the title.
Matches(title, alt) ==
    /\ Len(title) >= FieldStart(alt, 5) + Directives[5][alt[5]][1] - 1
    /\ IsDigits(SubSeq(title, 1, 4))
    /\ title[FieldStart(alt, 3) - 1] = "_"
    /\ \A f \in 1..5 :
          LET chars == FieldDigits(title, alt, f)
              d == Directives[f][alt[f]]
          IN  /\ \A n \in 1..d[4] : FieldChars(title, alt, f)[n] = " "
              /\ IsDigits(chars)
              /\ Num(chars) >= d[2]
              /\ Num(chars) <= d[3]

\* The order in which a backtracking match tries the choices.
TriedBefore(a, b) ==
    \E f \in 1..5 : a[f] < b[f] /\ \A g \in 1..(f - 1) : a[g] = b[g]

DaysInMonth(year, month) ==
    IF month \in {4, 6, 9, 11} THEN 30
    ELSE IF month # 2 THEN 31
    ELSE IF year % 4 = 0 /\ (year % 100 # 0 \/ year % 400 = 0) THEN 29
    ELSE 28

ValueError == [date |-> -1, time |-> -1]

\* datetime.strptime(title, '%Y%m%d_%H%M%S'): the first match of the
\* regular expression at the start of the title; ValueError when there is
\* none, when characters remain after it, or when the values are no date
\* and time.
strptime(title) ==
    LET alts == {alt \in Alternatives : Matches(title, alt)}
    IN  IF alts = {} THEN ValueError
        ELSE LET alt == CHOOSE a \in alts : \A b \in alts \ {a} : TriedBefore(a, b)
                 val(f) == Num(FieldDigits(title, alt, f))
                 year == Num(SubSeq(title, 1, 4))
             IN  IF \/ Len(title) # FieldStart(alt, 5) + Directives[5][alt[5]][1] - 1
                    \/ year < 1
                    \/ val(2) > DaysInMonth(year, val(1))
                    \/ val(5) > 59
                 THEN ValueError
                 ELSE Instant(year * 10000 + val(1) * 100 + val(2),
                              val(3) * 10000 + val(4) * 100 + val(5))

\* parsed.year
Year(instant) == instant.date \div 10000

\* a < b of two datetimes
Before(a, b) == a.date < b.date \/ (a.date = b.date /\ a.time < b.time)

get_photo_datetime(photo, now) ==
    IF photo.datetakenunknown = "0" THEN photo.datetaken
    ELSE LET parsed == strptime(photo.title)
         IN  IF parsed # ValueError /\ Year(parsed) > 2000 /\ Before(parsed, now)
             THEN parsed
             ELSE photo.datetaken

-----------------------------------------------------------------------------
(* Start of a run *)

NoCall == [status |-> "none"]

\* The history of a run that starts: repeat says that the run before it
\* completed and was made against the same account with the same arguments.
NewHist(repeat) ==
    [touched |-> {}, vfail |-> {}, vcrash |-> FALSE, pfail |-> FALSE,
     reported |-> FALSE, pruned |-> {}, fetched |-> {}, repeat |-> repeat,
     account |-> remote, args |-> cfg, at |-> "none", tampered |-> FALSE,
     printed |-> FALSE, visited |-> <<>>]

NewStats ==
    [new_photos |-> 0, modified_photos |-> 0, deleted_photos |-> 0,
     modified_albums |-> 0, modified_collections |-> 0]

\* The paths written in a run are recorded as <<root, path below the root>>.
Touch(path) == hist' = [hist EXCEPT !.touched = @ \cup {path}]

Idle == pc \in {"idle", "done", "aborted", "crashed", "interrupted"}

Init ==
    /\ remote \in RemoteChoices
    /\ cfg \in Configs
    /\ run = 0
    /\ pc = "idle"
    /\ dirs = {}
    /\ ps = <<>>
    /\ tmp = NoFile
    /\ albums = <<>>
    /\ nia = {}
    /\ coll = <<>>
    /\ stats = NewStats
    /\ alb = NoCall
    /\ nf = NoCall
    /\ cs = NoCall
    /\ dl = NoCall
    /\ pr = NoCall
    /\ lst = NoCall
    /\ wj = NoCall
    /\ hist = NewHist(FALSE)
    /\ net = NoCall
    /\ ref = NoCall

\* FlickrMirrorer.__init__ and _run_helper up to the first pass: with both
\* kinds ignored the run returns at once; otherwise the mirror root and the
\* photostream directory are made and the album pass starts.  The call of
\* _download_all_photos is commented out (line 246).
StartRun ==
    /\ Idle
    /\ run < MaxRuns
    /\ run' = run + 1
    /\ stats' = NewStats
    /\ hist' = NewHist(pc = "done" /\ hist.account = remote /\ hist.args = cfg)
    /\ alb' = NoCall /\ nf' = NoCall /\ cs' = NoCall /\ dl' = NoCall
    /\ pr' = NoCall /\ lst' = NoCall /\ wj' = NoCall
    /\ IF cfg.ignore_photos /\ cfg.ignore_videos
       THEN /\ pc' = "done"
            /\ dirs' = dirs
       ELSE /\ pc' = "albums_list"
            /\ dirs' = dirs \cup {"dest", "photostream"}
    /\ UNCHANGED <<ref, net, remote, cfg, ps, tmp, albums, nia, coll>>

\* Between two runs the account and the arguments may change; a run that
\* was interrupted is made again as it was.
ChangeRemote ==
    /\ Idle
    /\ pc # "interrupted"
    /\ run >= 1
    /\ run < MaxRuns
    /\ \E r \in RemoteChoices, v \in Versions :
          remote' = [r EXCEPT !.upd[12] = v]
    /\ remote' # remote
    /\ UNCHANGED <<ref, net, cfg, run, pc, dirs, ps, tmp, albums, nia, coll, stats,
                   alb, nf, cs, dl, pr, lst, wj, hist>>

ChangeConfig ==
    /\ Idle
    /\ pc # "interrupted"
    /\ run >= 1
    /\ run < MaxRuns
    /\ \E c \in Configs : cfg' = c
    /\ cfg' # cfg
    /\ UNCHANGED <<ref, net, remote, run, pc, dirs, ps, tmp, albums, nia, coll, stats,
                   alb, nf, cs, dl, pr, lst, wj, hist>>

-----------------------------------------------------------------------------
(* _write_json_if_different *)

\* A call: control goes to the comparison and comes back at ret.
CallWriteJson(target, data, ret) ==
    /\ wj' = [status |-> "called", target |-> target, data |-> data,
              ret |-> ret, wrote |-> FALSE]
    /\ pc' = "wj_check"

\* Lines 873-880: nothing to do when the stored document equals data;
\* otherwise the document is dumped into the temporary file.
WjCheck ==
    /\ pc = "wj_check"
    /\ IF ~_is_file_different(ReadAt(wj.target), wj.data)
       THEN /\ pc' = wj.ret
            /\ wj' = [wj EXCEPT !.status = "returned"]
            /\ UNCHANGED <<tmp, hist>>
       ELSE /\ tmp' = JsonFile(json_dump(wj.data))
            /\ Touch(<<"tmp", <<>> >>)
            /\ pc' = "wj_rename"
            /\ wj' = wj
    /\ UNCHANGED <<ref, net, remote, cfg, run, dirs, ps, albums, nia, coll, stats,
                   alb, nf, cs, dl, pr, lst>>

\* Line 881: os.rename(self.tmp_filename, filename).
WjRename ==
    /\ pc = "wj_rename"
    /\ LET t == wj.target IN
       /\ ps' = IF t.kind = "ps"
                THEN (t.name :> File(tmp, cfg.now)) @@ ps ELSE ps
       /\ albums' = IF t.kind = "album"
                    THEN [albums EXCEPT ![t.name].meta = tmp] ELSE albums
       /\ coll' = IF t.kind = "coll"
                  THEN [coll EXCEPT ![t.name].meta = tmp] ELSE coll
       /\ hist' = [hist EXCEPT !.touched = @ \cup {<<"tmp", <<>> >>, <<t.kind, IF t.kind = "coll" THEN t.name ELSE <<t.name>> >>}]
    /\ tmp' = NoFile
    /\ wj' = [wj EXCEPT !.status = "returned", !.wrote = TRUE]
    /\ pc' = wj.ret
    /\ UNCHANGED <<ref, net, remote, cfg, run, dirs, nia, stats, alb, nf, cs, dl, pr, lst>>

-----------------------------------------------------------------------------
(* _get_photo_basename and _download_photo *)

\* The name the HEAD request resolves for a video (line 814).
HeadName(photo) == Basename(photo.id, "avi")

\* The results _get_photo_basename can give: for a photo its id and format;
\* for a video the first file glob yields for the id that does not end in
\* 'metadata' (glob's order is the directory's), and with no such file the
\* name of the HEAD request, or VideoDownloadError when the request fails.
_get_photo_basename(photo, files) ==
    IF photo.media = "photo"
    THEN {[ok |-> TRUE, base |-> Basename(photo.id, photo.originalformat)]}
    ELSE IF GlobMatches(files, photo.id) # {}
         THEN {[ok |-> TRUE, base |-> f] : f \in GlobMatches(files, photo.id)}
         ELSE {[ok |-> TRUE, base |-> HeadName(photo)], [ok |-> FALSE]}

\* The data of a file of the photostream, NoFile when there is none.
FileData(files, name) == IF name \in DOMAIN files THEN files[name].data ELSE NoFile

CallDownloadPhoto(photo, ret) ==
    /\ dl' = [status |-> "called", photo |-> photo, ret |-> ret,
              base |-> NoFile, prior |-> NoFile, updated |-> {}]
    /\ pc' = "dl_begin"

\* raise VideoDownloadError: the caller's except clause takes over.
RaiseVideoDownloadError ==
    /\ dl' = [dl EXCEPT !.status = "video_error"]
    /\ hist' = [hist EXCEPT !.vfail = @ \cup {dl.photo.id}]
    /\ pc' = dl.ret

\* The decision the TODO of lines 473-477 describes: a missing sidecar
\* forces the fetch too.
ShouldDownload_nosidecar(photo, base, files) ==
    \/ base \notin DOMAIN files
    \/ MetadataBasename(base) \notin DOMAIN files
    \/ json_load(files[MetadataBasename(base)].data.text).lastupdate
          # photo.lastupdate

\* Lines 478-488: fetch when the content file is absent, or when a sidecar
\* exists whose lastupdate differs from the record's.
ShouldDownload(photo, base, files) ==
    \/ base \notin DOMAIN files
    \/ /\ MetadataBasename(base) \in DOMAIN files
       /\ json_load(files[MetadataBasename(base)].data.text).lastupdate
             # photo.lastupdate

\* Line 484 raises KeyError when either document has no 'lastupdate'.
LastUpdateKeyError(photo, base, files) ==
    /\ base \in DOMAIN files
    /\ MetadataBasename(base) \in DOMAIN files
    /\ \/ "lastupdate" \notin DOMAIN json_load(files[MetadataBasename(base)].data.text)
       \/ "lastupdate" \notin DOMAIN photo

\* Lines 453-494: the basename, the decision to fetch and the counters.
DlBegin ==
    /\ pc = "dl_begin"
    /\ \E o \in _get_photo_basename(dl.photo, ps) :
          IF ~o.ok
          THEN /\ RaiseVideoDownloadError
               /\ UNCHANGED <<stats, wj>>
          ELSE IF LastUpdateKeyError(dl.photo, o.base, ps)
          THEN /\ pc' = "crashed"
               /\ UNCHANGED <<stats, wj, dl, hist>>
          ELSE IF ShouldDownload(dl.photo, o.base, ps)
          THEN /\ stats' = IF o.base \notin DOMAIN ps
                           THEN [stats EXCEPT !.new_photos = @ + 1]
                           ELSE [stats EXCEPT !.modified_photos = @ + 1]
               /\ dl' = [dl EXCEPT !.base = o.base, !.prior = FileData(ps, o.base)]
               /\ pc' = "dl_get"
               /\ UNCHANGED <<wj, hist>>
          ELSE /\ dl' = [dl EXCEPT !.base = o.base, !.prior = FileData(ps, o.base)]
               /\ CallWriteJson([kind |-> "ps", name |-> MetadataBasename(o.base)],
                                dl.photo, "dl_time")
               /\ UNCHANGED <<stats, hist>>
    /\ UNCHANGED <<ref, net, remote, cfg, run, dirs, ps, tmp, albums, nia, coll,
                   alb, nf, cs, pr, lst>>

\* Every failed GET raises VideoDownloadError.
OnGetFailure_raise(photo) == "raise"

\* Lines 497-506: what a failed GET leads to.
OnGetFailure(photo) == IF photo.media = "video" THEN "raise" ELSE "exit"

\* A GET whose destination is opened for writing before the answer is
\* tested: after a failure the content file is there and empty.
DlGet_openfirst ==
    /\ pc = "dl_get"
    /\ \E ok \in BOOLEAN :
          IF ok
          THEN /\ tmp' = Partial(RemoteContent(dl.photo, remote), 0)
               /\ Touch(<<"tmp", <<>> >>)
               /\ pc' = "dl_chunk"
               /\ UNCHANGED <<dl, ps>>
          ELSE /\ ps' = (dl.base :> File(Partial(RemoteContent(dl.photo, remote), 0),
                                         cfg.now)) @@ ps
               /\ IF OnGetFailure(dl.photo) = "raise"
                  THEN /\ RaiseVideoDownloadError
                       /\ tmp' = tmp
                  ELSE /\ pc' = "aborted"
                       /\ hist' = [hist EXCEPT !.pfail = TRUE]
                       /\ UNCHANGED <<tmp, dl>>
    /\ UNCHANGED <<ref, net, remote, cfg, run, dirs, albums, nia, coll, stats,
                   alb, nf, cs, pr, lst, wj>>

\* Lines 496-510: the GET request.  A failure raises VideoDownloadError for
\* a video and ends the process for a photo; on success the temporary file
\* is opened for writing.
DlGet ==
    /\ pc = "dl_get"
    /\ \E ok \in BOOLEAN :
          IF ok
          THEN /\ tmp' = Partial(RemoteContent(dl.photo, remote), 0)
               /\ Touch(<<"tmp", <<>> >>)
               /\ pc' = "dl_chunk"
               /\ dl' = dl
          ELSE IF OnGetFailure(dl.photo) = "raise"
          THEN /\ RaiseVideoDownloadError
               /\ tmp' = tmp
          ELSE /\ pc' = "aborted"
               /\ hist' = [hist EXCEPT !.pfail = TRUE]
               /\ UNCHANGED <<tmp, dl>>
    /\ UNCHANGED <<ref, net, remote, cfg, run, dirs, ps, albums, nia, coll, stats,
                   alb, nf, cs, pr, lst, wj>>

\* A chunk written straight into the final path.
WriteChunk_inplace(files, tmpfile, base) ==
    [ps |-> (base :> File([tmpfile EXCEPT !.chunks = @ + 1], 0)) @@ files,
     tmp |-> [tmpfile EXCEPT !.chunks = @ + 1]]

\* Line 513: tmp_file.write(chunk); the photostream and the temporary file
\* after it.
WriteChunk(files, tmpfile, base) ==
    [ps |-> files, tmp |-> [tmpfile EXCEPT !.chunks = @ + 1]]

\* Lines 512-514: one chunk more in the temporary file.
DlChunk ==
    /\ pc = "dl_chunk"
    /\ tmp.chunks < NChunks
    /\ ps' = WriteChunk(ps, tmp, dl.base).ps
    /\ tmp' = WriteChunk(ps, tmp, dl.base).tmp
    /\ UNCHANGED <<ref, net, remote, cfg, run, pc, dirs, albums, nia, coll, stats,
                   alb, nf, cs, dl, pr, lst, wj, hist>>

\* Lines 516-528: the rename over the final path, then the sidecar.
DlRename ==
    /\ pc = "dl_chunk"
    /\ tmp.chunks = NChunks
    /\ ps' = (dl.base :> File(tmp, cfg.now)) @@ ps
    /\ tmp' = NoFile
    /\ dl' = [dl EXCEPT !.updated = @ \cup {dl.base}]
    /\ hist' = [hist EXCEPT !.touched = @ \cup {<<"tmp", <<>> >>, <<"ps", <<dl.base>> >>},
                            !.fetched = @ \cup {dl.photo.id}]
    /\ CallWriteJson([kind |-> "ps", name |-> MetadataBasename(dl.base)],
                     dl.photo, "dl_time")
    /\ UNCHANGED <<ref, net, remote, cfg, run, dirs, albums, nia, coll, stats,
                   alb, nf, cs, pr, lst>>

\* _set_timestamp_if_different on a file of the photostream: the new files
\* and whether os.utime was called.
SetTimestamp(files, name, timestamp) ==
    IF files[name].mtime # timestamp
    THEN [files EXCEPT ![name].mtime = timestamp]
    ELSE files

\* Lines 529-539: get_photo_datetime (KeyError for a record without the
\* date fields) and the timestamp of the content file.
DlTime ==
    /\ pc = "dl_time"
    /\ IF "datetakenunknown" \notin DOMAIN dl.photo
       THEN /\ pc' = "crashed"
            /\ UNCHANGED <<ps, dl, hist>>
       ELSE LET t == get_photo_datetime(dl.photo, cfg.now)
                m == MetadataBasename(dl.base)
                changed == ps[dl.base].mtime # t
            IN  /\ ps' = SetTimestamp(ps, dl.base, t)
                /\ dl' = [dl EXCEPT !.updated =
                             @ \cup (IF wj.wrote THEN {m} ELSE {})
                               \cup (IF changed THEN {dl.base} ELSE {})]
                /\ hist' = IF changed
                           THEN [hist EXCEPT !.touched = @ \cup {<<"ps", <<dl.base>> >>}]
                           ELSE hist
                /\ pc' = "dl_time2"
    /\ UNCHANGED <<ref, net, remote, cfg, run, dirs, tmp, albums, nia, coll, stats,
                   alb, nf, cs, pr, lst, wj>>

\* Lines 541-544: the timestamp of the sidecar, and the return.
DlTime2 ==
    /\ pc = "dl_time2"
    /\ LET t == get_photo_datetime(dl.photo, cfg.now)
           m == MetadataBasename(dl.base)
           changed == ps[m].mtime # t
       IN  /\ ps' = SetTimestamp(ps, m, t)
           /\ dl' = [dl EXCEPT !.status = "returned",
                               !.updated = @ \cup (IF changed THEN {m} ELSE {})]
           /\ hist' = IF changed
                      THEN [hist EXCEPT !.touched = @ \cup {<<"ps", <<m>> >>}]
                      ELSE hist
    /\ pc' = dl.ret
    /\ UNCHANGED <<ref, net, remote, cfg, run, dirs, tmp, albums, nia, coll, stats,
                   alb, nf, cs, pr, lst, wj>>

-----------------------------------------------------------------------------
(* _delete_unknown_files *)

\* os.listdir(rootdir)
ListDir(root) ==
    CASE root = "photostream" -> DOMAIN ps
      [] root = "Albums" -> DOMAIN albums
      [] root = "Collections" -> {p[1] : p \in {q \in DOMAIN coll : Len(q) = 1}}

\* Every entry of the directory, known or not.
UnknownEntries_all(curr_entries, known) == curr_entries

\* Line 903: set(curr_entries) - set(known)
UnknownEntries(curr_entries, known) == curr_entries \ known

\* Lines 893-898: the directory exists and --delete-unknown was given.
DeleteEnabled(root, existing, args) == root \in existing /\ args.delete_unknown

CallDeleteUnknown(root, known, ret) ==
    /\ pr' = [status |-> "called", root |-> root, known |-> known, ret |-> ret,
              before |-> ListDir(root), todo |-> {}, delete_count |-> 0,
              enabled |-> FALSE]
    /\ pc' = "prune_begin"

\* Lines 892-903: the two early returns, else the set of unknown entries.
PruneBegin ==
    /\ pc = "prune_begin"
    /\ IF ~DeleteEnabled(pr.root, dirs, cfg)
       THEN /\ pr' = [pr EXCEPT !.status = "returned"]
            /\ pc' = pr.ret
       ELSE /\ pr' = [pr EXCEPT !.todo = UnknownEntries(ListDir(pr.root), pr.known),
                                !.enabled = TRUE]
            /\ pc' = "prune_loop"
    /\ UNCHANGED <<ref, net, remote, cfg, run, dirs, ps, tmp, albums, nia, coll, stats,
                   alb, nf, cs, dl, lst, wj, hist>>

\* os.remove or shutil.rmtree of one entry of a root directory.
DeleteEntry(root, e) ==
    /\ ps' = IF root = "photostream" THEN Remove(ps, e) ELSE ps
    /\ albums' = IF root = "Albums" THEN Remove(albums, e) ELSE albums
    /\ coll' = IF root = "Collections" THEN RmTree(coll, <<e>>) ELSE coll

\* Lines 904-916: one unknown entry is counted and deleted; the set is
\* walked in no particular order.
PruneDelete ==
    /\ pc = "prune_loop"
    /\ \E e \in pr.todo :
          /\ DeleteEntry(pr.root, e)
          /\ pr' = [pr EXCEPT !.todo = @ \ {e}, !.delete_count = @ + 1]
          /\ hist' = [hist EXCEPT !.touched = @ \cup {<<pr.root, <<e>> >>},
                                  !.pruned = @ \cup {<<pr.root, <<e>> >>}]
    /\ UNCHANGED <<ref, net, remote, cfg, run, pc, dirs, tmp, nia, stats,
                   alb, nf, cs, dl, lst, wj>>

\* Line 918: return delete_count.
PruneReturn ==
    /\ pc = "prune_loop"
    /\ pr.todo = {}
    /\ pr' = [pr EXCEPT !.status = "returned"]
    /\ pc' = pr.ret
    /\ UNCHANGED <<ref, net, remote, cfg, run, dirs, ps, tmp, albums, nia, coll, stats,
                   alb, nf, cs, dl, lst, wj, hist>>

-----------------------------------------------------------------------------
(* _mirror_albums and _mirror_album *)

Min(a, b) == IF a < b THEN a ELSE b

\* The number of full pages only.
NumPages_floor(n) == n \div NUM_PHOTOS_PER_BATCH

\* int(math.ceil(float(n) / NUM_PHOTOS_PER_BATCH))
NumPages(n) == (n + NUM_PHOTOS_PER_BATCH - 1) \div NUM_PHOTOS_PER_BATCH

\* The items of page p of a listing.
PageOf(list, p) ==
    SubSeq(list, (p - 1) * NUM_PHOTOS_PER_BATCH + 1,
           Min(p * NUM_PHOTOS_PER_BATCH, Len(list)))

\* Lines 555-559: photosets.getList.
MirrorAlbums ==
    /\ pc = "albums_list"
    /\ LET list == [n \in 1..Len(remote.albums) |->
                       AlbumRecord(remote.albums[n], remote)]
       IN  /\ alb' = [status |-> "called", list |-> list, idx |-> 1,
                      album_dirs |-> {}, album |-> NoFile, page |-> 1,
                      queue |-> <<>>, photos |-> <<>>, i |-> 1, prior |-> NoFile]
           /\ IF list = <<>>
              THEN CallDeleteUnknown("Albums", {}, "nia_begin")
              ELSE /\ pc' = "album_page"
                   /\ pr' = pr
    /\ UNCHANGED <<ref, net, remote, cfg, run, dirs, ps, tmp, albums, nia, coll, stats,
                   nf, cs, dl, lst, wj, hist>>

AlbumOf(a) == a.list[a.idx]

AlbumBasename(a) == _get_album_dirname(AlbumOf(a).id, AlbumOf(a).title._content)

\* Lines 606-618: the album record gets the list of the members' ids and
\* the version number, and loses count_views when views are not included.
AlbumData(a) ==
    LET withPhotos == [AlbumOf(a) EXCEPT
                          !.photos = [n \in 1..Len(a.photos) |-> a.photos[n].id]]
        views == IF ~cfg.include_views /\ "count_views" \in DOMAIN withPhotos
                 THEN [k \in DOMAIN withPhotos \ {"count_views"} |-> withPhotos[k]]
                 ELSE withPhotos
    IN  ("flickrmirrorer_album_metadata_version" :> 2) @@ views

\* Line 625
AlbumNeedsUpdate(a) ==
    \/ AlbumBasename(a) \notin DOMAIN albums
    \/ _is_file_different(ReadAt([kind |-> "album", name |-> AlbumBasename(a)]),
                          AlbumData(a))

\* Lines 579-588: the next page of the album's members, while there is one;
\* lines 606-628 after the last page.
AlbumPage ==
    /\ pc = "album_page"
    /\ IF alb.page <= NumPages(AlbumOf(alb).photos)
       THEN /\ alb' = [alb EXCEPT
                         !.queue = [n \in 1..Len(PageOf(remote.members[AlbumOf(alb).id], alb.page)) |->
                                      PhotoRecord(PageOf(remote.members[AlbumOf(alb).id], alb.page)[n],
                                                  remote.upd)],
                         !.page = @ + 1]
            /\ pc' = "album_member"
            /\ stats' = stats
       ELSE IF AlbumNeedsUpdate(alb)
       THEN /\ alb' = [alb EXCEPT !.album = AlbumData(alb),
                                  !.prior = ReadAt([kind |-> "album",
                                                    name |-> AlbumBasename(alb)])]
            /\ stats' = [stats EXCEPT !.modified_albums = @ + 1]
            /\ pc' = "album_rmtree"
       ELSE /\ alb' = [alb EXCEPT !.album = AlbumData(alb)]
            /\ stats' = stats
            /\ pc' = "album_done"
    /\ UNCHANGED <<ref, net, remote, cfg, run, dirs, ps, tmp, albums, nia, coll,
                   nf, cs, dl, pr, lst, wj, hist>>

\* Lines 590-603: the next record of the page; an eligible one joins the
\* member list and is handed to _download_photo.
AlbumMember ==
    /\ pc = "album_member"
    /\ IF alb.queue = <<>>
       THEN /\ pc' = "album_page"
            /\ UNCHANGED <<alb, dl>>
       ELSE IF IsEligible(Head(alb.queue), cfg)
       THEN /\ alb' = [alb EXCEPT !.queue = Tail(@),
                                  !.photos = Append(@, Head(alb.queue))]
            /\ CallDownloadPhoto(Head(alb.queue), "album_member")
       ELSE /\ alb' = [alb EXCEPT !.queue = Tail(@)]
            /\ UNCHANGED <<pc, dl>>
    /\ UNCHANGED <<ref, net, remote, cfg, run, dirs, ps, tmp, albums, nia, coll, stats,
                   nf, cs, pr, lst, wj, hist>>

\* Line 631: _ensure_dir_doesnt_exist(album_dir).
AlbumRmtree ==
    /\ pc = "album_rmtree"
    /\ albums' = _ensure_dir_doesnt_exist(albums, AlbumBasename(alb))
    /\ hist' = IF AlbumBasename(alb) \in DOMAIN albums
               THEN [hist EXCEPT !.touched = @ \cup {<<"Albums", <<AlbumBasename(alb)>> >>}]
               ELSE hist
    /\ pc' = "album_mkdir"
    /\ UNCHANGED <<ref, net, remote, cfg, run, dirs, ps, tmp, nia, coll, stats,
                   alb, nf, cs, dl, pr, lst, wj>>

\* Line 632: _ensure_dir_exists(album_dir), which makes Albums too.
AlbumMkdir ==
    /\ pc = "album_mkdir"
    /\ albums' = _ensure_dir_exists(albums, AlbumBasename(alb))
    /\ dirs' = dirs \cup {"Albums"}
    /\ Touch(<<"Albums", <<AlbumBasename(alb)>> >>)
    /\ alb' = [alb EXCEPT !.i = 1]
    /\ pc' = "album_symlink"
    /\ UNCHANGED <<ref, net, remote, cfg, run, ps, tmp, nia, coll, stats,
                   nf, cs, dl, pr, lst, wj>>

\* '%s_%s' % (str(i+1).zfill(digits), photo_basename), pointing at the file
\* of that basename in the photostream.
AlbumSymlinkName(pos, digits, base) == [pos |-> pos, width |-> digits, base |-> base]

\* A loop that stops before the last member.
MoreMembers_butlast(i, photos) == i < Len(photos)

\* Line 637: for i, photo in enumerate(photos), with i counted from 1.
MoreMembers(i, photos) == i <= Len(photos)

\* Lines 636-646: one symlink per member; _get_photo_basename is called
\* again for each, outside any try.  After the last one, the sidecar.
AlbumSymlink ==
    /\ pc = "album_symlink"
    /\ IF MoreMembers(alb.i, alb.photos)
       THEN \E o \in _get_photo_basename(alb.photos[alb.i], ps) :
               IF ~o.ok
               THEN /\ pc' = "crashed"
                    /\ hist' = [hist EXCEPT !.vfail = @ \cup {alb.photos[alb.i].id},
                                            !.vcrash = TRUE]
                    /\ UNCHANGED <<albums, alb, wj>>
               ELSE /\ albums' = [albums EXCEPT ![AlbumBasename(alb)].links =
                                     @ \cup {AlbumSymlinkName(alb.i, StrLen(Len(alb.photos)), o.base)}]
                    /\ alb' = [alb EXCEPT !.i = @ + 1]
                    /\ UNCHANGED <<pc, wj, hist>>
       ELSE /\ CallWriteJson([kind |-> "album", name |-> AlbumBasename(alb)],
                             alb.album, "album_done")
            /\ UNCHANGED <<albums, alb, hist>>
    /\ UNCHANGED <<ref, net, remote, cfg, run, dirs, ps, tmp, nia, coll, stats,
                   nf, cs, dl, pr, lst>>

\* Line 651 and the loop of line 559-560; after the last album, line 562.
AlbumDone ==
    /\ pc = "album_done"
    /\ LET known == alb.album_dirs \cup {AlbumBasename(alb)} IN
       IF alb.idx < Len(alb.list)
       THEN /\ alb' = [alb EXCEPT !.album_dirs = known, !.idx = @ + 1,
                                  !.page = 1, !.queue = <<>>, !.photos = <<>>,
                                  !.album = NoFile, !.i = 1, !.prior = NoFile]
            /\ pc' = "album_page"
            /\ pr' = pr
       ELSE /\ alb' = [alb EXCEPT !.album_dirs = known, !.status = "returned",
                                  !.prior = NoFile]
            /\ CallDeleteUnknown("Albums", known, "nia_begin")
    /\ UNCHANGED <<ref, net, remote, cfg, run, dirs, ps, tmp, albums, nia, coll, stats,
                   nf, cs, dl, lst, wj, hist>>

-----------------------------------------------------------------------------
(* _create_not_in_any_album_dir *)

\* Line 665: _ensure_dir_doesnt_exist(album_dir).
NiaRmtree ==
    /\ pc = "nia_begin"
    /\ nia' = {}
    /\ dirs' = dirs \ {NiaDir}
    /\ hist' = IF NiaDir \in dirs
               THEN [hist EXCEPT !.touched = @ \cup {<<NiaDir, <<>> >>}]
               ELSE hist
    /\ pc' = "nia_mkdir"
    /\ UNCHANGED <<ref, net, remote, cfg, run, ps, tmp, albums, coll, stats,
                   alb, nf, cs, dl, pr, lst, wj>>

\* Line 666: _ensure_dir_exists(album_dir).
NiaMkdir ==
    /\ pc = "nia_mkdir"
    /\ dirs' = dirs \cup {NiaDir}
    /\ Touch(<<NiaDir, <<>> >>)
    /\ nf' = [status |-> "called", page |-> 1, queue |-> <<>>, photos |-> <<>>,
              i |-> 1]
    /\ pc' = "nia_page"
    /\ UNCHANGED <<ref, net, remote, cfg, run, ps, tmp, albums, nia, coll, stats,
                   alb, cs, dl, pr, lst, wj>>

\* What photos.getNotInSet answers for a page: nothing past the last one.
NotInSetPage(r, p) ==
    IF p <= Len(r.notinset)
    THEN [n \in 1..Len(r.notinset[p]) |-> NotInSetRecord(r.notinset[p][n])]
    ELSE <<>>

\* Lines 669-677: the request of the current page.
NiaPage ==
    /\ pc = "nia_page"
    /\ nf' = [nf EXCEPT !.queue = NotInSetPage(remote, nf.page),
                        !.photos = <<>>, !.i = 1]
    /\ pc' = "nia_member"
    /\ UNCHANGED <<ref, net, remote, cfg, run, dirs, ps, tmp, albums, nia, coll, stats,
                   alb, cs, dl, pr, lst, wj, hist>>

\* Lines 678-695: the next record of the page; after the last one the loop
\* ends when the page gave no eligible record.
NiaMember ==
    /\ pc = "nia_member"
    /\ IF nf.queue = <<>>
       THEN /\ pc' = IF nf.photos = <<>> THEN "coll_list" ELSE "nia_symlink"
            /\ nf' = IF nf.photos = <<>>
                     THEN [nf EXCEPT !.status = "returned"] ELSE nf
            /\ dl' = dl
       ELSE IF IsEligible(Head(nf.queue), cfg)
       THEN /\ nf' = [nf EXCEPT !.queue = Tail(@),
                                !.photos = Append(@, Head(nf.queue))]
            /\ CallDownloadPhoto(Head(nf.queue), "nia_member")
       ELSE /\ nf' = [nf EXCEPT !.queue = Tail(@)]
            /\ UNCHANGED <<pc, dl>>
    /\ UNCHANGED <<ref, net, remote, cfg, run, dirs, ps, tmp, albums, nia, coll, stats,
                   alb, cs, pr, lst, wj, hist>>

\* Lines 697-704: one symlink per eligible record of the page, named by the
\* basename (os.symlink fails on a name that exists), then the next page.
NiaSymlink ==
    /\ pc = "nia_symlink"
    /\ IF nf.i <= Len(nf.photos)
       THEN \E o \in _get_photo_basename(nf.photos[nf.i], ps) :
               IF ~o.ok
               THEN /\ pc' = "crashed"
                    /\ hist' = [hist EXCEPT !.vfail = @ \cup {nf.photos[nf.i].id},
                                            !.vcrash = TRUE]
                    /\ UNCHANGED <<nia, nf>>
               ELSE IF o.base \in nia
               THEN /\ pc' = "crashed"
                    /\ UNCHANGED <<nia, nf, hist>>
               ELSE /\ nia' = nia \cup {o.base}
                    /\ nf' = [nf EXCEPT !.i = @ + 1]
                    /\ Touch(<<NiaDir, <<>> >>)
                    /\ pc' = pc
       ELSE /\ nf' = [nf EXCEPT !.page = @ + 1]
            /\ pc' = "nia_page"
            /\ UNCHANGED <<nia, hist>>
    /\ UNCHANGED <<ref, net, remote, cfg, run, dirs, ps, tmp, albums, coll, stats,
                   alb, cs, dl, pr, lst, wj>>

-----------------------------------------------------------------------------
(* _mirror_collections and _mirror_collection *)

\* collection.get('set') or []
NodeAlbums(node) == IF "set" \in DOMAIN node THEN node.set ELSE <<>>

\* collection.get('collection') or []
NodeChildren(node) == IF "collection" \in DOMAIN node THEN node.collection ELSE <<>>

Frame(node, parent) == [node |-> node, parent |-> parent, i |-> 1, c |-> 1]

Top(stack) == stack[Len(stack)]

Pop(stack) == SubSeq(stack, 1, Len(stack) - 1)

\* os.path.join(parent_dir, collection_basename)
CollectionDir(f) ==
    Append(f.parent, _get_collection_dirname(f.node.id, f.node.title))

\* Lines 714-720: collections.getTree.
MirrorCollections ==
    /\ pc = "coll_list"
    /\ cs' = [status |-> "called", list |-> remote.tree, idx |-> 1,
              collection_dirs |-> {},
              stack |-> IF remote.tree = <<>> THEN <<>>
                        ELSE <<Frame(remote.tree[1], <<>>)>>]
    /\ IF remote.tree = <<>>
       THEN CallDeleteUnknown("Collections", {}, "stats")
       ELSE /\ pc' = "coll_enter"
            /\ pr' = pr
    /\ UNCHANGED <<ref, net, remote, cfg, run, dirs, ps, tmp, albums, nia, coll, stats,
                   alb, nf, dl, lst, wj, hist>>

\* Line 735
CollectionNeedsUpdate(f, tree) ==
    \/ CollectionDir(f) \notin DOMAIN tree
    \/ _is_file_different(
          IF tree[CollectionDir(f)].kind = "dir"
          THEN tree[CollectionDir(f)].meta ELSE NoFile, f.node)

\* Lines 730-738: the directory of the node, and whether it is rebuilt.
\* hist.visited is the list of the directories _mirror_collection was
\* called for.
CollEnter ==
    /\ pc = "coll_enter"
    /\ IF CollectionNeedsUpdate(Top(cs.stack), coll)
       THEN /\ stats' = [stats EXCEPT !.modified_collections = @ + 1]
            /\ pc' = "coll_rmtree"
       ELSE /\ stats' = stats
            /\ pc' = "coll_return"
    /\ hist' = [hist EXCEPT !.visited = Append(@, CollectionDir(Top(cs.stack)))]
    /\ UNCHANGED <<ref, net, remote, cfg, run, dirs, ps, tmp, albums, nia, coll,
                   alb, nf, cs, dl, pr, lst, wj>>

\* Line 741: _ensure_dir_doesnt_exist(collection_dir).
CollRmtree ==
    /\ pc = "coll_rmtree"
    /\ coll' = RmTree(coll, CollectionDir(Top(cs.stack)))
    /\ hist' = IF CollectionDir(Top(cs.stack)) \in DOMAIN coll
               THEN [hist EXCEPT !.touched = @ \cup {<<"Collections", CollectionDir(Top(cs.stack))>>}]
               ELSE hist
    /\ pc' = "coll_mkdir"
    /\ UNCHANGED <<ref, net, remote, cfg, run, dirs, ps, tmp, albums, nia, stats,
                   alb, nf, cs, dl, pr, lst, wj>>

\* Line 742: _ensure_dir_exists(collection_dir).
CollMkdir ==
    /\ pc = "coll_mkdir"
    /\ coll' = _ensure_dir_exists(coll, CollectionDir(Top(cs.stack)))
    /\ dirs' = dirs \cup {"Collections"}
    /\ Touch(<<"Collections", CollectionDir(Top(cs.stack))>>)
    /\ pc' = "coll_symlink"
    /\ UNCHANGED <<ref, net, remote, cfg, run, ps, tmp, albums, nia, stats,
                   alb, nf, cs, dl, pr, lst, wj>>

\* Lines 745-750: one symlink per album of the node, named as the album's
\* directory.
CollSymlink ==
    /\ pc = "coll_symlink"
    /\ LET f == Top(cs.stack)
           d == CollectionDir(f)
       IN  IF f.i <= Len(NodeAlbums(f.node))
           THEN LET a == NodeAlbums(f.node)[f.i]
                    name == _get_album_dirname(a.id, a.title)
                IN  IF name \in coll[d].links
                    THEN /\ pc' = "crashed"
                         /\ UNCHANGED <<coll, cs>>
                    ELSE /\ coll' = [coll EXCEPT ![d].links = @ \cup {name}]
                         /\ cs' = [cs EXCEPT !.stack[Len(cs.stack)].i = @ + 1]
                         /\ pc' = pc
           ELSE /\ pc' = "coll_child"
                /\ UNCHANGED <<coll, cs>>
    /\ UNCHANGED <<ref, net, remote, cfg, run, dirs, ps, tmp, albums, nia, stats,
                   alb, nf, dl, pr, lst, wj, hist>>

\* Lines 753-757: the recursive call for the next child; after the last
\* child, the sidecar of the node.
CollChild ==
    /\ pc = "coll_child"
    /\ LET f == Top(cs.stack)
       IN  IF f.c <= Len(NodeChildren(f.node))
           THEN /\ cs' = [cs EXCEPT !.stack =
                            Append([@ EXCEPT ![Len(@)].c = f.c + 1],
                                   Frame(NodeChildren(f.node)[f.c], CollectionDir(f)))]
                /\ pc' = "coll_enter"
                /\ wj' = wj
           ELSE /\ CallWriteJson([kind |-> "coll", name |-> CollectionDir(f)],
                                 f.node, "coll_return")
                /\ cs' = cs
    /\ UNCHANGED <<ref, net, remote, cfg, run, dirs, ps, tmp, albums, nia, coll, stats,
                   alb, nf, dl, pr, lst, hist>>

\* Line 759: the return, to the parent's loop or to the loop of
\* _mirror_collections (lines 717-720).
CollReturn ==
    /\ pc = "coll_return"
    /\ LET f == Top(cs.stack)
           known == cs.collection_dirs
                      \cup {_get_collection_dirname(f.node.id, f.node.title)}
       IN  IF Len(cs.stack) > 1
           THEN /\ cs' = [cs EXCEPT !.stack = Pop(@)]
                /\ pc' = "coll_child"
                /\ pr' = pr
           ELSE IF cs.idx < Len(cs.list)
           THEN /\ cs' = [cs EXCEPT !.collection_dirs = known, !.idx = @ + 1,
                                    !.stack = <<Frame(cs.list[cs.idx + 1], <<>>)>>]
                /\ pc' = "coll_enter"
                /\ pr' = pr
           ELSE /\ cs' = [cs EXCEPT !.collection_dirs = known, !.stack = <<>>,
                                    !.status = "returned"]
                /\ CallDeleteUnknown("Collections", known, "stats")
    /\ UNCHANGED <<ref, net, remote, cfg, run, dirs, ps, tmp, albums, nia, coll, stats,
                   alb, nf, dl, lst, wj, hist>>

\* Line 255: _print_statistics, the end of a run.
PrintStatistics ==
    /\ pc = "stats"
    /\ pc' = "done"
    /\ hist' = [hist EXCEPT !.printed = cfg.statistics]
    /\ UNCHANGED <<ref, net, remote, cfg, run, dirs, ps, tmp, albums, nia, coll, stats,
                   alb, nf, cs, dl, pr, lst, wj>>

-----------------------------------------------------------------------------

Next ==
    \/ StartRun \/ ChangeRemote \/ ChangeConfig
    \/ MirrorAlbums \/ AlbumPage \/ AlbumMember \/ AlbumRmtree \/ AlbumMkdir
    \/ AlbumSymlink \/ AlbumDone
    \/ DlBegin \/ DlGet \/ DlChunk \/ DlRename \/ DlTime \/ DlTime2
    \/ WjCheck \/ WjRename
    \/ PruneBegin \/ PruneDelete \/ PruneReturn
    \/ NiaRmtree \/ NiaMkdir \/ NiaPage \/ NiaMember \/ NiaSymlink
    \/ MirrorCollections \/ CollEnter \/ CollRmtree \/ CollMkdir
    \/ CollSymlink \/ CollChild \/ CollReturn
    \/ PrintStatistics

Spec == Init /\ [][Next]_vars

-----------------------------------------------------------------------------
(* Properties of a run *)

\* The run has gone through all its passes (and was not the no-op of a run
\* with both kinds ignored).
RunCompleted == pc = "done" /\ ~(cfg.ignore_photos /\ cfg.ignore_videos)

\* The items the account lists in an album or as unassigned.
ListedItems(r) ==
    UNION {{r.members[r.albums[n]][m] : m \in 1..Len(r.members[r.albums[n]])} :
              n \in 1..Len(r.albums)}
    \cup UNION {{r.notinset[n][m] : m \in 1..Len(r.notinset[n])} :
                   n \in 1..Len(r.notinset)}

\* The photostream names of the eligible listed items: content and sidecar.
KnownPhotostream(r, c) ==
    {n \in DOMAIN ps :
        \E i \in ListedItems(r) :
            /\ IsEligible(PhotoRecord(i, r.upd), c)
            /\ n.id = i}

\* C1: after a full run that completes with delete-unknown enabled, the
\* photostream, Albums and Collections directories hold no entry outside
\* the known set of that run.
C1_NothingUnknownAfterRun ==
    (RunCompleted /\ cfg.delete_unknown /\ hist.account = remote /\ hist.args = cfg) =>
        /\ DOMAIN ps \subseteq KnownPhotostream(remote, cfg)
        /\ DOMAIN albums \subseteq alb.album_dirs
        /\ ListDir("Collections") \subseteq cs.collection_dirs

\* What C2 asks of a step taken inside _delete_unknown_files.
DeleteUnknownStep ==
    pc \in {"prune_begin", "prune_loop"} =>
       /\ UNCHANGED <<dirs, tmp, nia, stats>>
       /\ pr.root # "photostream" => ps' = ps
       /\ pr.root # "Albums" => albums' = albums
       /\ pr.root # "Collections" => coll' = coll
       /\ pc' = pr.ret =>
             IF ~cfg.delete_unknown \/ pr.root \notin dirs
             THEN /\ ListDir(pr.root)' = pr.before
                  /\ pr'.delete_count = 0
             ELSE /\ ListDir(pr.root)' = pr.before \cap pr.known
                  /\ pr'.delete_count = Cardinality(pr.before \ pr.known)

\* C2: _delete_unknown_files deletes nothing and returns 0 when
\* delete-unknown is disabled or the root is not a directory; otherwise it
\* deletes exactly the entries that are not in known, none that is, and
\* returns their number.  While it runs nothing else changes.
C2_DeleteUnknownFiles == [][DeleteUnknownStep]_vars

C2_Witness ==
    /\ pr.status = "returned"
    /\ pc = pr.ret
    /\ pr.delete_count >= 1
    /\ pr.before \cap pr.known # {}
    /\ ListDir(pr.root) = pr.before \cap pr.known

\* C3: the second of two complete runs against the same account (and with
\* the same arguments) creates, deletes, rewrites and touches nothing
\* under the mirror root.
C3_SecondRunWritesNothing == hist.repeat => hist.touched = {}

-----------------------------------------------------------------------------
(* The environment of a run *)

\* _sig_int_handler: Ctrl-C at any step of a run prints the statistics and
\* ends the process; _cleanup leaves the temporary file where it is.
Interrupt ==
    /\ ~Idle
    /\ pc' = "interrupted"
    /\ hist' = [hist EXCEPT !.at = pc, !.printed = cfg.statistics]
    /\ UNCHANGED <<ref, net, remote, cfg, run, dirs, ps, tmp, albums, nia, coll, stats,
                   alb, nf, cs, dl, pr, lst, wj>>

SpecInterrupt == Init /\ [][Next \/ Interrupt]_vars

\* A symlink that no run has made.
StrayLink == AlbumSymlinkName(9, 1, Basename(2, "jpg"))

\* Between two runs somebody removes a symlink from an album directory, or
\* adds one to it, and leaves the sidecar as it is.
Tamper ==
    /\ Idle
    /\ run >= 1
    /\ run < MaxRuns
    /\ ~hist.tampered
    /\ \E d \in DOMAIN albums :
          /\ albums[d].meta # NoFile
          /\ \/ \E l \in albums[d].links :
                   albums' = [albums EXCEPT ![d].links = @ \ {l}]
             \/ albums' = [albums EXCEPT ![d].links = @ \cup {StrayLink}]
    /\ hist' = [hist EXCEPT !.tampered = TRUE]
    /\ UNCHANGED <<ref, net, remote, cfg, run, pc, dirs, ps, tmp, nia, coll, stats,
                   alb, nf, cs, dl, pr, lst, wj>>

SpecTamper == Init /\ [][Next \/ Tamper]_vars

-----------------------------------------------------------------------------
(* _download_all_photos, called on its own *)

\* The photostreams the pass is made against.
StreamChoices == { <<>>, <<12>>, <<12, 2>>, <<1, 12, 2>>, <<12, 1, 2, 3>> }

\* An account whose photostream lists the items of stream.
StreamAccount(stream) == ("stream" :> stream) @@ Account(<<>>, <<>>, <<>>, <<>>)

\* rsp['photos']['pages'] of people.getPhotos: the number of pages of the
\* listing; for an empty listing the provider may say 0 or 1.
PagesAnswer(total) == IF total = 0 THEN {0, 1} ELSE {NumPages(total)}

\* rsp['photos']['photo'] of people.getPhotos for a page: the items of the
\* page, or, when the provider misbehaves, some of them only or one too many.
PageAnswers(stream, p) ==
    LET page == PageOf(stream, p)
    IN  {SubSeq(page, 1, k) : k \in 0..Len(page)}
          \cup (IF stream # <<>> THEN {Append(page, stream[1])} ELSE {})

InitListing ==
    /\ remote \in {StreamAccount(s) : s \in StreamChoices}
    /\ cfg \in Configs
    /\ run = 0
    /\ pc = "idle"
    /\ dirs = {}
    /\ ps = <<>>
    /\ tmp = NoFile
    /\ albums = <<>>
    /\ nia = {}
    /\ coll = <<>>
    /\ stats = NewStats
    /\ alb = NoCall /\ nf = NoCall /\ cs = NoCall /\ dl = NoCall
    /\ pr = NoCall /\ lst = NoCall /\ wj = NoCall
    /\ hist = NewHist(FALSE)
    /\ net = NoCall
    /\ ref = NoCall

\* Lines 326-348: the photostream directory is made and the locals are set.
StartListing ==
    /\ Idle
    /\ run < MaxRuns
    /\ run' = run + 1
    /\ stats' = NewStats
    /\ hist' = NewHist(pc = "done" /\ hist.account = remote /\ hist.args = cfg)
    /\ alb' = NoCall /\ nf' = NoCall /\ cs' = NoCall /\ dl' = NoCall
    /\ pr' = NoCall /\ wj' = NoCall
    /\ lst' = [status |-> "called", page |-> 1, total |-> 0, counts |-> <<>>,
               items |-> <<>>, queue |-> <<>>, file_names |-> {},
               new_or_modified_files |-> {}, download_errors |-> {}]
    /\ dirs' = dirs \cup {"dest", "photostream"}
    /\ pc' = "lst_page"
    /\ UNCHANGED <<ref, net, remote, cfg, ps, tmp, albums, nia, coll>>

\* Between two passes the photostream of the account may change.
ChangeStream ==
    /\ Idle
    /\ run >= 1
    /\ run < MaxRuns
    /\ \E s \in StreamChoices, v \in Versions :
          remote' = [StreamAccount(s) EXCEPT !.upd[12] = v]
    /\ remote' # remote
    /\ UNCHANGED <<ref, net, cfg, run, pc, dirs, ps, tmp, albums, nia, coll, stats,
                   alb, nf, cs, dl, pr, lst, wj, hist>>

\* Lines 367-370: the number of items the page is expected to hold.
ExpectedRspItemCount(current_page, pages, total) ==
    IF current_page = pages THEN total % NUM_PHOTOS_PER_BATCH
    ELSE NUM_PHOTOS_PER_BATCH

\* Lines 350-392, one turn of the loop: the request of line 356 (made
\* through the name _flickr_people_getPhotos, which the class does not
\* define; the wrapper of line 282 is _flickrapi_people_getPhotos and is
\* what is modelled), the item-count check, and the end of the listing.
ListPage ==
    /\ pc = "lst_page"
    /\ \E pages \in PagesAnswer(Len(remote.stream)),
          photo \in PageAnswers(remote.stream, lst.page) :
          LET total == IF lst.page = 1 THEN Len(remote.stream) ELSE lst.total
              recs == [n \in 1..Len(photo) |-> PhotoRecord(photo[n], remote.upd)]
              seen == [lst EXCEPT !.total = total, !.counts = Append(@, Len(photo))]
          IN  IF Len(photo) # ExpectedRspItemCount(lst.page, pages, total)
              THEN /\ lst' = seen
                   /\ pc' = "aborted"
              ELSE IF lst.page = pages
              THEN /\ lst' = [seen EXCEPT !.items = @ \o recs,
                                          !.queue = lst.items \o recs]
                   /\ pc' = "ps_member"
              ELSE /\ lst' = [seen EXCEPT !.items = @ \o recs, !.page = @ + 1]
                   /\ pc' = pc
    /\ UNCHANGED <<ref, net, remote, cfg, run, dirs, ps, tmp, albums, nia, coll, stats,
                   alb, nf, cs, dl, pr, wj, hist>>

\* Lines 406-411: the next item of the listing; an eligible one is handed
\* to _download_photo.
PsMember ==
    /\ pc = "ps_member"
    /\ IF lst.queue = <<>>
       THEN /\ pc' = "ps_finish"
            /\ UNCHANGED <<lst, dl>>
       ELSE IF IsEligible(Head(lst.queue), cfg)
       THEN /\ lst' = [lst EXCEPT !.queue = Tail(@)]
            /\ CallDownloadPhoto(Head(lst.queue), "ps_collect")
       ELSE /\ lst' = [lst EXCEPT !.queue = Tail(@)]
            /\ UNCHANGED <<pc, dl>>
    /\ UNCHANGED <<ref, net, remote, cfg, run, dirs, ps, tmp, albums, nia, coll, stats,
                   alb, nf, cs, pr, wj, hist>>

\* Lines 411-415: the names and the updated files the call returned, or the
\* error it raised.
PsCollect ==
    /\ pc = "ps_collect"
    /\ lst' = IF dl.status = "video_error"
              THEN [lst EXCEPT !.download_errors = @ \cup {dl.photo.id}]
              ELSE [lst EXCEPT
                      !.file_names = @ \cup {dl.base, MetadataBasename(dl.base)},
                      !.new_or_modified_files = @ \cup dl.updated]
    /\ pc' = "ps_member"
    /\ UNCHANGED <<ref, net, remote, cfg, run, dirs, ps, tmp, albums, nia, coll, stats,
                   alb, nf, cs, dl, pr, wj, hist>>

\* A pass that bails out for nothing at all.
NoneUpdated_never(new_or_modified_files) == FALSE

\* Line 430: not new_or_modified_files.
NoneUpdated(new_or_modified_files) == new_or_modified_files = {}

\* Lines 418-438: the collected video errors are reported and end the
\* process; so does a pass that updated no file; otherwise the photostream
\* directory is pruned.
PsFinish ==
    /\ pc = "ps_finish"
    /\ IF lst.download_errors # {}
       THEN /\ pc' = "aborted"
            /\ hist' = [hist EXCEPT !.reported = TRUE]
            /\ pr' = pr
       ELSE IF NoneUpdated(lst.new_or_modified_files)
       THEN /\ pc' = "aborted"
            /\ UNCHANGED <<hist, pr>>
       ELSE /\ CallDeleteUnknown("photostream", lst.file_names, "ps_return")
            /\ hist' = hist
    /\ UNCHANGED <<ref, net, remote, cfg, run, dirs, ps, tmp, albums, nia, coll, stats,
                   alb, nf, cs, dl, lst, wj>>

\* Line 438: half of the number of deleted files is the number of deleted
\* photos.
PsReturn ==
    /\ pc = "ps_return"
    /\ stats' = [stats EXCEPT !.deleted_photos = pr.delete_count \div 2]
    /\ lst' = [lst EXCEPT !.status = "returned"]
    /\ pc' = "done"
    /\ UNCHANGED <<ref, net, remote, cfg, run, dirs, ps, tmp, albums, nia, coll,
                   alb, nf, cs, dl, pr, wj, hist>>

NextListing ==
    \/ StartListing \/ ChangeStream \/ ChangeConfig
    \/ ListPage \/ PsMember \/ PsCollect \/ PsFinish \/ PsReturn
    \/ DlBegin \/ DlGet \/ DlChunk \/ DlRename \/ DlTime \/ DlTime2
    \/ WjCheck \/ WjRename
    \/ PruneBegin \/ PruneDelete \/ PruneReturn

SpecListing == InitListing /\ [][NextListing]_vars

-----------------------------------------------------------------------------
(* Claims, continued *)

\* The number of items that the total and the page size imply for a page:
\* the page size for a page before the last, the rest for the last.
ImpliedCount(total, page) ==
    IF page < NumPages(total) THEN NUM_PHOTOS_PER_BATCH
    ELSE IF page = NumPages(total)
         THEN total - NUM_PHOTOS_PER_BATCH * (NumPages(total) - 1)
         ELSE 0

\* A page of the listing held fewer or more items than implied.
PageCountMismatch ==
    /\ lst.status # "none"
    /\ \E p \in 1..Len(lst.counts) : lst.counts[p] # ImpliedCount(lst.total, p)

\* C7: when a page of the photostream listing returns fewer or more items
\* than the total and the page size imply for it, the run aborts, before
\* any content fetch, sidecar write or deletion.
C7_MismatchAborts ==
    PageCountMismatch =>
        /\ hist.touched = {}
        /\ hist.pruned = {}
        /\ pc # "done"

\* A content fetch is under way, or the run was interrupted in one.
FetchInProgress ==
    \/ pc \in {"dl_get", "dl_chunk"}
    \/ pc = "interrupted" /\ hist.at \in {"dl_get", "dl_chunk"}

\* C4: at every step of a content fetch, an interruption after any chunk
\* included, the file at the final content path is absent, the complete
\* prior version or the complete new version; partial data is only ever in
\* the temporary file.
C4_FinalPathNeverPartial ==
    /\ \A f \in DOMAIN ps :
          ps[f].data.kind = "content" => ps[f].data.chunks = NChunks
    /\ FetchInProgress => FileData(ps, dl.base) = dl.prior
    /\ (pc = "wj_check" /\ wj.ret = "dl_time" /\ dl.base \in dl.updated) =>
          FileData(ps, dl.base) = Complete(RemoteContent(dl.photo, remote))

\* A run is interrupted after the first chunk of a new version of a photo
\* whose prior version is on disk.
C4_Witness ==
    /\ pc = "interrupted"
    /\ hist.at = "dl_chunk"
    /\ tmp.chunks = 1
    /\ dl.prior # NoFile
    /\ dl.prior.content # tmp.content
    /\ FileData(ps, dl.base) = dl.prior

\* The symlinks an album directory is to hold for a member list: the
\* positions 1..n, padded to the width of n, each at a basename of its member.
LinksMatchMembers(links, photos, files) ==
    /\ Cardinality(links) = Len(photos)
    /\ \A i \in 1..Len(photos) :
          \E l \in links :
             /\ l.pos = i
             /\ l.width = StrLen(Len(photos))
             /\ [ok |-> TRUE, base |-> l.base] \in _get_photo_basename(photos[i], files)

\* C5: after _mirror_album returns for an album, the symlinks of its
\* directory correspond one to one, in member order, to the album's
\* current eligible members, whatever the directory held before the call.
C5_AlbumLinksMatchMembers ==
    pc = "album_done" =>
        LinksMatchMembers(albums[AlbumBasename(alb)].links, alb.photos, ps)

-----------------------------------------------------------------------------
(* _is_file_different on its own *)

\* The longest sidecar text, in key/value pairs.
MaxTextLen == 3

SidecarKeys == {"id", "lastupdate"}

SidecarValues == {1, 2}

\* The texts a sidecar file may hold: the pairs in any order, a key may
\* come twice.
SidecarTexts ==
    UNION {[1..n -> SidecarKeys \X SidecarValues] : n \in 0..MaxTextLen}

\* The records the file is compared with.
SidecarRecords == UNION {[S -> SidecarValues] : S \in SUBSET SidecarKeys}

SidecarName == MetadataBasename(Basename(12, "jpg"))

\* A mirror root with at most one sidecar in the photostream, and a call
\* of _is_file_different on its path.
InitChange ==
    /\ remote = Account(<<>>, <<>>, <<>>, <<>>)
    /\ cfg = Args(FALSE, FALSE, FALSE)
    /\ run = 1
    /\ pc = "cmp_call"
    /\ dirs = {"dest", "photostream"}
    /\ \/ ps = <<>>
       \/ \E text \in SidecarTexts :
             ps = (SidecarName :> File(JsonFile(text), 0))
    /\ tmp = NoFile
    /\ albums = <<>>
    /\ nia = {}
    /\ coll = <<>>
    /\ stats = NewStats
    /\ alb = NoCall /\ nf = NoCall /\ cs = NoCall /\ dl = NoCall
    /\ pr = NoCall /\ lst = NoCall
    /\ \E data \in SidecarRecords :
          wj = [status |-> "called", target |-> [kind |-> "ps", name |-> SidecarName],
                data |-> data, ret |-> "cmp_done", wrote |-> FALSE,
                result |-> FALSE, before |-> ps]
    /\ hist = NewHist(FALSE)
    /\ net = NoCall
    /\ ref = NoCall

\* Lines 838-846: the call returns.
IsFileDifferent ==
    /\ pc = "cmp_call"
    /\ wj' = [wj EXCEPT !.status = "returned",
                        !.result = _is_file_different(ReadAt(wj.target), wj.data)]
    /\ pc' = wj.ret
    /\ UNCHANGED <<ref, net, remote, cfg, run, dirs, ps, tmp, albums, nia, coll, stats,
                   alb, nf, cs, dl, pr, lst, hist>>

SpecChange == InitChange /\ [][IsFileDifferent]_vars

\* The key/value pairs of a document.
PairsOf(doc) == {<<k, doc[k]>> : k \in DOMAIN doc}

\* C6: _is_file_different returns False if and only if a sidecar exists at
\* the path and its decoded document equals the record, whatever the order
\* of the keys in the file; it returns True otherwise, and it leaves the
\* file system as it was.
C6_IsFileDifferent ==
    pc = "cmp_done" =>
        /\ wj.result = FALSE <=>
              /\ SidecarName \in DOMAIN wj.before
              /\ PairsOf(json_load(wj.before[SidecarName].data.text)) = PairsOf(wj.data)
        /\ wj.result = TRUE <=>
              \/ SidecarName \notin DOMAIN wj.before
              \/ PairsOf(json_load(wj.before[SidecarName].data.text)) # PairsOf(wj.data)
        /\ ps = wj.before
        /\ tmp = NoFile

\* The call has returned False for a file that holds the keys of the
\* record in another order than json.dump writes them.
C6_Witness ==
    /\ pc = "cmp_done"
    /\ wj.result = FALSE
    /\ DOMAIN wj.data = SidecarKeys
    /\ wj.before[SidecarName].data.text # json_dump(wj.data)

\* The directories directly below a path of the Collections tree.
SubDirs(tree, p) ==
    {q[Len(q)] : q \in {x \in DOMAIN tree :
                          /\ Len(x) = Len(p) + 1
                          /\ IsUnder(p, x)
                          /\ tree[x].kind = "dir"}}

\* The directory of a node holds one symlink per album of the node and one
\* directory per child, and so do the directories of the children.
RECURSIVE CollectionMirrored(_, _, _)
CollectionMirrored(tree, parent, node) ==
    LET d == Append(parent, _get_collection_dirname(node.id, node.title))
        members == {_get_album_dirname(NodeAlbums(node)[n].id, NodeAlbums(node)[n].title) :
                       n \in 1..Len(NodeAlbums(node))}
        children == {_get_collection_dirname(NodeChildren(node)[n].id,
                                             NodeChildren(node)[n].title) :
                        n \in 1..Len(NodeChildren(node))}
    IN  /\ d \in DOMAIN tree
        /\ tree[d].kind = "dir"
        /\ tree[d].links = members
        /\ Cardinality(tree[d].links) = Len(NodeAlbums(node))
        /\ SubDirs(tree, d) = children
        /\ Cardinality(children) = Len(NodeChildren(node))
        /\ \A n \in 1..Len(NodeChildren(node)) :
              CollectionMirrored(tree, d, NodeChildren(node)[n])

\* C8: after a successful collection pass every node of the remote tree has
\* its directory, which holds, apart from the sidecar, exactly one symlink
\* per member album and one directory per child collection, recursively.
C8_CollectionTreeMirrored ==
    pc = "stats" =>
        \A n \in 1..Len(remote.tree) : CollectionMirrored(coll, <<>>, remote.tree[n])

\* A second run has rebuilt a three-level tree that an earlier run had
\* mirrored in another shape.
C8_Witness ==
    /\ pc = "stats"
    /\ run = 2
    /\ stats.modified_collections >= 3
    /\ remote.tree = <<Top91, Other94>>
    /\ <<"Collections", <<_get_collection_dirname(91, "Top")>> >> \in hist.touched

\* C9: a transport failure on a video never aborts the run; it is collected
\* and reported once at the end of the run.
C9_VideoFailureDeferred ==
    /\ ~hist.vcrash
    /\ (pc = "done" /\ hist.vfail # {}) => hist.reported

\* What C10 asks of a step: a failed GET of a photo ends the run, and an
\* ended run does nothing more.
PhotoFailureStep ==
    /\ (pc = "dl_get" /\ dl.photo.media = "photo" /\ pc' # "dl_chunk") =>
           pc' = "aborted"
    /\ pc = "aborted" =>
           \/ run' = run + 1
           \/ UNCHANGED <<fsvars, run, pc, stats, hist>>

\* C10: a transport failure for the content of a photo aborts the whole run:
\* no later item, album or collection is processed and nothing is pruned.
C10_PhotoFailureAborts == [][PhotoFailureStep]_vars

\* A photo failed while members, albums, the collections and the pruning
\* of a run with delete-unknown were still to come.
C10_Witness ==
    /\ pc = "aborted"
    /\ hist.pfail
    /\ cfg.delete_unknown
    /\ alb.idx < Len(alb.list)
    /\ alb.queue # <<>>
    /\ remote.tree # <<>>

-----------------------------------------------------------------------------
(* The rate-limited wrappers of the outbound calls *)

\* FLICKR_API_LIMIT_MAX_CALLS_IN_PERIOD
FLICKR_API_LIMIT_MAX_CALLS_IN_PERIOD == 1

\* FLICKR_API_LIMIT_PERIOD_LENGTH_SECS
FLICKR_API_LIMIT_PERIOD_LENGTH_SECS == 1

\* The clock is read in ticks: so many to the second.
TicksPerSec == 2

\* The clock stops here, and a run makes no more outbound calls than this.
MaxClock == 4

MaxCalls == 3

\* The period of the limiters, in ticks.
PeriodTicks == FLICKR_API_LIMIT_PERIOD_LENGTH_SECS * TicksPerSec

\* Three of the wrappers of lines 260-314: two provider methods and the
\* media transport.  Each has a @limits decorator of its own.
Wrappers == {"photosets_getList", "photosets_getPhotos", "requests_get"}

ProviderMethods == {"photosets_getList", "photosets_getPhotos"}

\* The state a @limits decorator is made with, when the class is defined.
NewLimiter == [last_reset |-> 0, num_calls |-> 0]

\* ratelimit.limits, the wrapper's first lines: a period that has run out
\* starts again at the present time with no calls counted.
LimiterAtCall(l, now) ==
    IF PeriodTicks - (now - l.last_reset) <= 0
    THEN [last_reset |-> now, num_calls |-> 1]
    ELSE [l EXCEPT !.num_calls = @ + 1]

\* ratelimit.limits raises RateLimitException when the calls counted in
\* the period exceed the ceiling.
OverLimit(l) == l.num_calls > FLICKR_API_LIMIT_MAX_CALLS_IN_PERIOD

\* exception.period_remaining
PeriodRemaining(l, now) == PeriodTicks - (now - l.last_reset)

InitRate ==
    /\ remote = Account(<<>>, <<>>, <<>>, <<>>)
    /\ cfg = Args(FALSE, FALSE, FALSE)
    /\ run = 1
    /\ pc = "net_idle"
    /\ dirs = {"dest", "photostream"}
    /\ ps = <<>>
    /\ tmp = NoFile
    /\ albums = <<>>
    /\ nia = {}
    /\ coll = <<>>
    /\ stats = NewStats
    /\ alb = NoCall /\ nf = NoCall /\ cs = NoCall /\ dl = NoCall
    /\ pr = NoCall /\ lst = NoCall /\ wj = NoCall
    /\ hist = NewHist(FALSE)
    /\ net = [status |-> "running", clock |-> 0,
              limiter |-> [m \in Wrappers |-> NewLimiter],
              starts |-> <<>>, method |-> "none", attempts |-> 0,
              delays |-> 0, response |-> "none", wake |-> 0]
    /\ ref = NoCall

\* Time passes while the program works on the local files.
Tick ==
    /\ pc = "net_idle"
    /\ net.clock < MaxClock
    /\ net' = [net EXCEPT !.clock = @ + 1]
    /\ UNCHANGED <<ref, remote, cfg, run, pc, dirs, ps, tmp, albums, nia, coll, stats,
                   alb, nf, cs, dl, pr, lst, wj, hist>>

\* The run calls one of the wrappers.
Invoke ==
    /\ pc = "net_idle"
    /\ Len(net.starts) < MaxCalls
    /\ \E m \in Wrappers :
          net' = [net EXCEPT !.method = m, !.attempts = 0, !.delays = 0,
                             !.response = "none"]
    /\ pc' = "net_limit"
    /\ UNCHANGED <<ref, remote, cfg, run, dirs, ps, tmp, albums, nia, coll, stats,
                   alb, nf, cs, dl, pr, lst, wj, hist>>

\* @limits: the call is counted by the limiter of its own wrapper; over
\* the ceiling RateLimitException goes to @sleep_and_retry, otherwise the
\* wrapped call starts.
LimitCheck ==
    /\ pc = "net_limit"
    /\ LET l == LimiterAtCall(net.limiter[net.method], net.clock)
       IN  IF OverLimit(l)
           THEN /\ net' = [net EXCEPT !.limiter[net.method] = l,
                                      !.delays = @ + 1,
                                      !.wake = net.clock + PeriodRemaining(l, net.clock)]
                /\ pc' = "net_sleep"
           ELSE /\ net' = [net EXCEPT !.limiter[net.method] = l,
                                      !.attempts = @ + 1,
                                      !.starts = Append(@, [method |-> net.method,
                                                            at |-> net.clock])]
                /\ pc' = "net_call"
    /\ UNCHANGED <<ref, remote, cfg, run, dirs, ps, tmp, albums, nia, coll, stats,
                   alb, nf, cs, dl, pr, lst, wj, hist>>

\* @sleep_and_retry: time.sleep(exception.period_remaining), then the
\* wrapper is called again.
SleepAndRetry ==
    /\ pc = "net_sleep"
    /\ net' = [net EXCEPT !.clock = net.wake]
    /\ pc' = "net_limit"
    /\ UNCHANGED <<ref, remote, cfg, run, dirs, ps, tmp, albums, nia, coll, stats,
                   alb, nf, cs, dl, pr, lst, wj, hist>>

\* The answer of the provider to a call of one of its methods: ok, or the
\* error it gives to a client that calls too often.
ProviderAnswers(m) == IF m \in ProviderMethods THEN {"ok", "rate_limited"} ELSE {"ok"}

\* What the run does with an answer: an error answer ends it, either in
\* _validate_json_response (sys.exit, lines 137-139) or as the FlickrError
\* that flickrapi raises for a failed response, which nothing catches.
OnAnswer(answer) == IF answer = "ok" THEN {"net_idle"} ELSE {"aborted", "crashed"}

\* The wrapped call returns.
Respond ==
    /\ pc = "net_call"
    /\ \E answer \in ProviderAnswers(net.method) :
          /\ net' = [net EXCEPT !.response = answer]
          /\ pc' \in OnAnswer(answer)
    /\ UNCHANGED <<ref, remote, cfg, run, dirs, ps, tmp, albums, nia, coll, stats,
                   alb, nf, cs, dl, pr, lst, wj, hist>>

NextRate == Tick \/ Invoke \/ LimitCheck \/ SleepAndRetry \/ Respond

SpecRate == InitRate /\ [][NextRate]_vars

\* The calls that started in the window of one period that begins at t.
StartsIn(t) ==
    {k \in 1..Len(net.starts) :
        t <= net.starts[k].at /\ net.starts[k].at < t + PeriodTicks}

\* C11: counting all outbound calls of a run together, no window of
\* FLICKR_API_LIMIT_PERIOD_LENGTH_SECS holds more than
\* FLICKR_API_LIMIT_MAX_CALLS_IN_PERIOD call starts.
C11_GlobalCallRate ==
    net.status = "running" =>
        \A t \in 0..MaxClock :
            Cardinality(StartsIn(t)) <= FLICKR_API_LIMIT_MAX_CALLS_IN_PERIOD

\* C12: a rate-limit error response of the provider does not end the run
\* before the same call was made again at least once.
C12_RateLimitErrorRetried ==
    (net.status = "running" /\ net.response = "rate_limited" /\ pc \in {"aborted", "crashed"}) =>
        net.attempts >= 2

-----------------------------------------------------------------------------

\* C13: a run that is not a no-op makes the four passes in order:
\* the albums pass starts only after the photostream pass has returned,
\* the pass over the unassigned items only after the albums pass, the
\* collections pass only after that one, and the run completes only after
\* all four have returned.
C13_FourPassesInOrder ==
    /\ alb.status # "none" => lst.status = "returned"
    /\ nf.status # "none" => alb.status # "none" /\ pc \notin {"albums_list", "album_page"}
    /\ cs.status # "none" => nf.status = "returned"
    /\ (pc = "done" /\ ~(hist.args.ignore_photos /\ hist.args.ignore_videos)) =>
          /\ lst.status = "returned"
          /\ cs.status # "none"

\* C14: an interrupt at any step of the first run, which began with
\* nothing mirrored, leaves every album directory that exists as a
\* completed rebuild leaves it: with its sidecar and with one symlink per
\* member the sidecar lists.
C14_InterruptLeavesNoIntermediate ==
    (pc = "interrupted" /\ run = 1) =>
        \A d \in DOMAIN albums :
            albums[d].kind = "dir" =>
                /\ albums[d].meta # NoFile
                /\ Cardinality(albums[d].links)
                      = Len(json_load(albums[d].meta.text).photos)

\* C15: when the listing of the photostream has ended with no item at
\* all, _download_all_photos ends the process and never calls
\* _delete_unknown_files: nothing in the photostream directory is deleted.
C15_EmptyListingDeletesNothing ==
    (lst.status = "called" /\ pc # "lst_page" /\ lst.items = <<>>) =>
        /\ pc \in {"ps_member", "ps_finish", "aborted"}
        /\ pr.status = "none"
        /\ hist.pruned = {}

\* A second pass with delete-unknown set finds files in the photostream
\* directory, is given an empty listing and has ended.
C15_Witness ==
    /\ pc = "aborted"
    /\ run = 2
    /\ cfg.delete_unknown
    /\ remote.stream = <<>>
    /\ lst.status = "called"
    /\ lst.counts = <<0>>
    /\ lst.items = <<>>
    /\ ps # <<>>

-----------------------------------------------------------------------------
(* get_photo_datetime on its own *)

\* The titles of the records: of the shape YYYYMMDD_HHMMSS with a date of
\* the past, of the year 2000, of the future and with no date at all;
\* shorter than the shape; and of other shapes.
Titles ==
    {<<"2", "0", "1", "5", "0", "1", "0", "1", "_", "1", "2", "0", "0", "0", "0">>,
     <<"2", "0", "1", "5", "0", "1", "0", "1", "_", "1", "2", "0", "0">>,
     <<"2", "0", "1", "5", "1", "1", "_", "1", "2", "3">>,
     <<"2", "0", "0", "0", "0", "1", "0", "1", "_", "1", "2", "0", "0", "0", "0">>,
     <<"2", "0", "0", "1", "0", "1", "0", "1", "_", "0", "0", "0", "0", "0", "0">>,
     <<"2", "0", "9", "9", "0", "1", "0", "1", "_", "1", "2", "0", "0", "0", "0">>,
     <<"2", "0", "1", "5", "1", "3", "0", "1", "_", "1", "2", "0", "0", "0", "0">>,
     <<"2", "0", "1", "5", "0", "2", "3", "0", "_", "1", "2", "0", "0", "0", "0">>,
     <<"2", "0", "1", "6", "0", "2", "2", "9", "_", "2", "3", "5", "9", "5", "9">>,
     <<"2", "0", "1", "5", "0", "1", "0", "1", "_", "2", "4", "6", "0", "0", "0">>,
     <<"2", "0", "1", "5", "0", "1", " ", "1", "_", "1", "2", "0", "0", "0", "0">>,
     <<"t">>,
     <<>>,
     <<"2", "0", "1", "5", "-", "0", "1", "-", "0", "1">>}

\* The time of the call.
Nows == {Instant(20260101, 0), Instant(20150101, 120000)}

InitDate ==
    /\ remote = Account(<<>>, <<>>, <<>>, <<>>)
    /\ \E n \in Nows : cfg = [Args(FALSE, FALSE, FALSE) EXCEPT !.now = n]
    /\ run = 1
    /\ pc = "dt_call"
    /\ dirs = {"dest", "photostream"}
    /\ ps = <<>>
    /\ tmp = NoFile
    /\ albums = <<>>
    /\ nia = {}
    /\ coll = <<>>
    /\ stats = NewStats
    /\ alb = NoCall /\ nf = NoCall /\ cs = NoCall
    /\ \E unknown \in {"0", "1"}, title \in Titles, i \in {12, 2} :
          dl = [status |-> "called",
                photo |-> [PhotoRecord(i, AllOnes) EXCEPT
                              !.title = title, !.datetakenunknown = unknown]]
    /\ pr = NoCall /\ lst = NoCall /\ wj = NoCall
    /\ hist = NewHist(FALSE)
    /\ net = NoCall
    /\ ref = NoCall

\* Lines 529 and 541: get_photo_datetime(photo).
GetPhotoDatetime ==
    /\ pc = "dt_call"
    /\ dl' = ("t" :> get_photo_datetime(dl.photo, cfg.now))
                @@ [dl EXCEPT !.status = "returned"]
    /\ pc' = "dt_done"
    /\ UNCHANGED <<ref, net, remote, cfg, run, dirs, ps, tmp, albums, nia, coll, stats,
                   alb, nf, cs, pr, lst, wj, hist>>

SpecDate == InitDate /\ [][GetPhotoDatetime]_vars

\* The title is eight digits, an underscore and six digits.
HasTitleShape(title) ==
    /\ Len(title) = 15
    /\ IsDigits(SubSeq(title, 1, 8))
    /\ title[9] = "_"
    /\ IsDigits(SubSeq(title, 10, 15))

\* The date and time that a title of that shape spells.
TitleDate(title) == Instant(Num(SubSeq(title, 1, 8)), Num(SubSeq(title, 10, 15)))

\* A date of the calendar, after the year 2000 and before now.
PlausiblePast(i, now) ==
    /\ (i.date \div 100) % 100 \in 1..12
    /\ i.date % 100 \in 1..DaysInMonth(Year(i), (i.date \div 100) % 100)
    /\ i.time \div 10000 <= 23
    /\ (i.time \div 100) % 100 <= 59
    /\ i.time % 100 <= 59
    /\ Year(i) > 2000
    /\ Before(i, now)

\* C16: get_photo_datetime returns the provider's date-taken when it is
\* flagged known; otherwise the date of a title of the shape
\* YYYYMMDD_HHMMSS that is a plausible past date; otherwise the
\* provider's date-taken.
C16_DatetimeFallbackChain ==
    pc = "dt_done" =>
        dl.t = IF dl.photo.datetakenunknown = "0" THEN dl.photo.datetaken
               ELSE IF /\ HasTitleShape(dl.photo.title)
                       /\ PlausiblePast(TitleDate(dl.photo.title), cfg.now)
               THEN TitleDate(dl.photo.title)
               ELSE dl.photo.datetaken

-----------------------------------------------------------------------------

\* The files of the photostream directory that belong to items of a kind.
FilesOfKind(files, kind) == {f \in DOMAIN files : Media[f.id] = kind}

\* C17: after a completed run with delete-unknown set and one media kind
\* ignored, the photostream directory holds no content file and no sidecar
\* of an item of the ignored kind.
C17_IgnoredKindDeleted ==
    (pc = "done" /\ hist.args = cfg /\ cfg.delete_unknown) =>
        /\ (cfg.ignore_photos /\ ~cfg.ignore_videos) => FilesOfKind(ps, "photo") = {}
        /\ (cfg.ignore_videos /\ ~cfg.ignore_photos) => FilesOfKind(ps, "video") = {}

\* The content file of the basename is absent, or it is present and there
\* is a sidecar whose lastupdate differs from the lastupdate of the record.
FetchDue(photo, base, files) ==
    \/ base \notin DOMAIN files
    \/ /\ base \in DOMAIN files
       /\ MetadataBasename(base) \in DOMAIN files
       /\ LET metadata == json_load(files[MetadataBasename(base)].data.text)
          IN  /\ "lastupdate" \in DOMAIN metadata
              /\ "lastupdate" \in DOMAIN photo
              /\ metadata.lastupdate # photo.lastupdate

\* The step of _download_photo that decides on the fetch, for an item whose
\* basename it has found.
FetchDecisionStep ==
    /\ pc = "dl_begin"
    /\ pc' \in {"dl_get", "wj_check", "crashed"}

FetchDecisionAsClaimed ==
    FetchDecisionStep =>
        /\ pc' = "dl_get" => FetchDue(dl.photo, dl'.base, ps)
        /\ pc' = "wj_check" => ~FetchDue(dl.photo, dl'.base, ps)
        /\ pc' = "crashed" =>
              \E o \in _get_photo_basename(dl.photo, ps) :
                  o.ok /\ ~FetchDue(dl.photo, o.base, ps)

\* C18: _download_photo goes on to fetch the content exactly when the
\* content file is absent, or is present with a sidecar whose lastupdate
\* differs from the record's; with the content present and no sidecar it
\* does not fetch.
C18_FetchDecision == [][FetchDecisionAsClaimed]_vars

\* _download_photo has found the content file without its sidecar and has
\* gone on to write the sidecar without a fetch.
C18_Witness ==
    /\ pc = "wj_check"
    /\ wj.ret = "dl_time"
    /\ dl.status = "called"
    /\ dl.prior # NoFile
    /\ dl.base \notin dl.updated
    /\ MetadataBasename(dl.base) \notin DOMAIN ps
    /\ dl.photo.id \notin hist.fetched

-----------------------------------------------------------------------------
(* _write_json_if_different on its own *)

\* A mirror root with at most one sidecar in the photostream, and a call
\* of _write_json_if_different on its path.
InitWrite ==
    /\ remote = Account(<<>>, <<>>, <<>>, <<>>)
    /\ cfg = Args(FALSE, FALSE, FALSE)
    /\ run = 1
    /\ pc = "wj_check"
    /\ dirs = {"dest", "photostream"}
    /\ \/ ps = <<>>
       \/ \E text \in SidecarTexts :
             ps = (SidecarName :> File(JsonFile(text), Instant(20200101, 0)))
    /\ tmp = NoFile
    /\ albums = <<>>
    /\ nia = {}
    /\ coll = <<>>
    /\ stats = NewStats
    /\ alb = NoCall /\ nf = NoCall /\ cs = NoCall /\ dl = NoCall
    /\ pr = NoCall /\ lst = NoCall
    /\ \E data \in SidecarRecords :
          wj = [status |-> "called", target |-> [kind |-> "ps", name |-> SidecarName],
                data |-> data, ret |-> "wj_second", wrote |-> FALSE,
                before |-> ps, first |-> FALSE, after |-> ps]
    /\ hist = NewHist(FALSE)
    /\ net = NoCall
    /\ ref = NoCall

\* The same call once more, after the first has returned.
WriteAgain ==
    /\ pc = "wj_second"
    /\ wj' = [wj EXCEPT !.status = "called", !.ret = "wj_done", !.wrote = FALSE,
                        !.first = wj.wrote, !.after = ps]
    /\ pc' = "wj_check"
    /\ UNCHANGED <<ref, net, remote, cfg, run, dirs, ps, tmp, albums, nia, coll, stats,
                   alb, nf, cs, dl, pr, lst, hist>>

NextWrite == WjCheck \/ WjRename \/ WriteAgain

SpecWrite == InitWrite /\ [][NextWrite]_vars

\* The document stored at the path when the first call was made is
\* structurally equal to the record.
StoredEqual ==
    /\ SidecarName \in DOMAIN wj.before
    /\ PairsOf(json_load(wj.before[SidecarName].data.text)) = PairsOf(wj.data)

\* C19: _write_json_if_different leaves the file untouched and returns
\* False when the stored document equals the record; otherwise it writes
\* the temporary file and renames it onto the path, so that the file
\* decodes to the record, and returns True; a second call with the same
\* record changes nothing and returns False.
C19_WriteJsonIfDifferent ==
    /\ pc = "wj_rename" =>
          /\ ps = (IF wj.ret = "wj_second" THEN wj.before ELSE wj.after)
          /\ tmp # NoFile
    /\ pc \in {"wj_second", "wj_done"} =>
          LET first == IF pc = "wj_second" THEN wj.wrote ELSE wj.first
              after == IF pc = "wj_second" THEN ps ELSE wj.after
          IN  /\ StoredEqual => first = FALSE /\ after = wj.before
              /\ ~StoredEqual =>
                    /\ first = TRUE
                    /\ SidecarName \in DOMAIN after
                    /\ PairsOf(json_load(after[SidecarName].data.text)) = PairsOf(wj.data)
    /\ pc = "wj_done" =>
          /\ wj.wrote = FALSE
          /\ ps = wj.after
          /\ tmp = NoFile

\* The first call has replaced a sidecar that held another document, and
\* the second call has returned.
C19_Witness ==
    /\ pc = "wj_done"
    /\ wj.first = TRUE
    /\ SidecarName \in DOMAIN wj.before
    /\ wj.before[SidecarName].data.text # <<>>
    /\ wj.data # <<>>
    /\ wj.wrote = FALSE

-----------------------------------------------------------------------------

\* The record _mirror_album compares the sidecar of album x with, for the
\* account and the arguments as they are now.
CurrentAlbumData(x) ==
    LET members == [n \in 1..Len(remote.members[x]) |->
                       PhotoRecord(remote.members[x][n], remote.upd)]
    IN  AlbumData([list |-> <<AlbumRecord(x, remote)>>, idx |-> 1,
                   photos |-> SelectSeq(members, LAMBDA photo : IsEligible(photo, cfg))])

\* The directory of album x, when its sidecar equals the current record,
\* holds one symlink per member the record lists, one at each position.
AlbumEntriesComplete(x) ==
    LET d == _get_album_dirname(x, AlbumTitle[x])
        rec == CurrentAlbumData(x)
    IN  (/\ d \in DOMAIN albums
         /\ ~_is_file_different(ReadAt([kind |-> "album", name |-> d]), rec)) =>
            /\ Cardinality(albums[d].links) = Len(rec.photos)
            /\ \A i \in 1..Len(rec.photos) :
                  \E l \in albums[d].links : l.pos = i /\ l.width = StrLen(Len(rec.photos))

\* The directory of a node of the tree, when its sidecar equals the node's
\* record, holds the symlinks of the node's albums and the directories of
\* its children, complete in turn; the same for the nodes below it.
RECURSIVE CollectionEntriesComplete(_, _, _)
CollectionEntriesComplete(tree, parent, node) ==
    LET d == Append(parent, _get_collection_dirname(node.id, node.title))
    IN  /\ (/\ d \in DOMAIN tree
            /\ tree[d].kind = "dir"
            /\ ~_is_file_different(tree[d].meta, node)) =>
               CollectionMirrored(tree, parent, node)
        /\ \A n \in 1..Len(NodeChildren(node)) :
              CollectionEntriesComplete(tree, d, NodeChildren(node)[n])

\* C20: a rebuild writes the sidecar of an album or collection directory
\* last, after all its entries: in every state of a run, a directory whose
\* sidecar equals the current remote record holds the complete set of
\* entries of that record.
C20_SidecarImpliesComplete ==
    /\ \A n \in 1..Len(remote.albums) : AlbumEntriesComplete(remote.albums[n])
    /\ \A n \in 1..Len(remote.tree) :
          CollectionEntriesComplete(coll, <<>>, remote.tree[n])

\* In the middle of a run, an album of two members has just been rebuilt
\* and its sidecar, which equals the current record, written.
C20_Witness ==
    /\ pc = "album_done"
    /\ Len(alb.photos) >= 2
    /\ <<"Albums", <<AlbumBasename(alb)>> >> \in hist.touched
    /\ ~_is_file_different(ReadAt([kind |-> "album", name |-> AlbumBasename(alb)]),
                           CurrentAlbumData(AlbumOf(alb).id))
    /\ Cardinality(albums[AlbumBasename(alb)].links) >= 2

-----------------------------------------------------------------------------

\* _mirror_album has found a sidecar that lists other members, or the same
\* in another order, than the album has now, and has rebuilt the directory.
MembershipChanged ==
    /\ pc = "album_done"
    /\ alb.prior # NoFile
    /\ "photos" \in DOMAIN json_load(alb.prior.text)
    /\ json_load(alb.prior.text).photos # alb.album.photos

\* The names of the symlinks, sorted, give the members in remote order:
\* of two symlinks the one of the earlier position has the smaller name,
\* names being compared by their zero-padded position prefixes.
SortedByPosition(links) ==
    \A k, l \in links : k.width = l.width /\ (k # l => k.pos # l.pos)

-----------------------------------------------------------------------------

\* The items the provider reports as unassigned on any page and that the
\* arguments do not exclude.
EligibleUnassigned ==
    {i \in UNION {{remote.notinset[p][n] : n \in 1..Len(remote.notinset[p])} :
                     p \in 1..Len(remote.notinset)} :
        IsEligible(NotInSetRecord(i), cfg)}

\* C22: when _create_not_in_any_album_dir has completed, the directory
\* holds exactly one symlink for every eligible item of any page of
\* photos.getNotInSet, and nothing else.
C22_NotInAnyAlbumComplete ==
    (pc = "coll_list" /\ nf.status = "returned") =>
        /\ {l.id : l \in nia} = EligibleUnassigned
        /\ Cardinality(nia) = Cardinality(EligibleUnassigned)

\* The fields of a record that _download_photo and get_photo_datetime read.
MaterialisationFields == {"lastupdate", "datetaken", "datetakenunknown", "title"}

\* C23: the record the uncategorized pass hands to _download_photo carries
\* every field materialisation reads, as the record of an album member
\* does, and the call does not end in an error.
C23_UnassignedSameAsMember ==
    (dl.status # "none" /\ dl.ret = "nia_member") =>
        /\ pc = "dl_time" => MaterialisationFields \subseteq DOMAIN dl.photo
        /\ ~(pc = "crashed" /\ dl.status = "called")

\* C24: the basename _get_photo_basename gives _download_photo for an
\* item is a name of that item, never the content file of another one.
C24_BasenameOfSameItem ==
    (dl.status # "none" /\ dl.base # NoFile) => dl.base.id = dl.photo.id

-----------------------------------------------------------------------------
(* get_photo_datetime, evaluated twice *)

\* A second evaluation on the same record, at the same time or later.
GetPhotoDatetimeAgain ==
    /\ pc = "dt_done"
    /\ \E n \in Nows :
          /\ ~Before(n, cfg.now)
          /\ cfg' = [cfg EXCEPT !.now = n]
          /\ dl' = ("again" :> get_photo_datetime(dl.photo, n)) @@ dl
    /\ pc' = "dt_again"
    /\ UNCHANGED <<ref, net, remote, run, dirs, ps, tmp, albums, nia, coll, stats,
                   alb, nf, cs, pr, lst, wj, hist>>

NextDateTwice == GetPhotoDatetime \/ GetPhotoDatetimeAgain

SpecDateTwice == InitDate /\ [][NextDateTwice]_vars

\* C25: two evaluations of get_photo_datetime on the same record return
\* the same datetime, whenever each takes place.
C25_DatetimeDeterministic ==
    pc = "dt_again" => dl.again = dl.t

-----------------------------------------------------------------------------
(* An interrupted run and the run after it, against an uninterrupted run *)

\* The files under the destination directory.
Mirror ==
    [dirs |-> dirs, ps |-> ps, albums |-> albums, nia |-> nia, coll |-> coll]

\* Before a run: the files of the destination are noted in ref, so that a
\* second run can be made from the same state.
Mark ==
    /\ pc \in {"idle", "done"}
    /\ ref = NoCall
    /\ ref' = [status |-> "marked", before |-> Mirror, tmp |-> tmp,
               mirror |-> Mirror]
    /\ run' = 0
    /\ UNCHANGED <<net, remote, cfg, pc, dirs, ps, tmp, albums, nia, coll, stats,
                   alb, nf, cs, dl, pr, lst, wj, hist>>

\* The run made from the noted state has completed without an interruption
\* and the transport has answered every request: its files are kept in ref,
\* and the destination is put back into the noted state, with the same
\* account and arguments.
Rewind ==
    /\ pc = "done"
    /\ run = 1
    /\ ref # NoCall
    /\ ref.status = "marked"
    /\ hist.account = remote
    /\ hist.args = cfg
    /\ hist.vfail = {}
    /\ ref' = [ref EXCEPT !.status = "taken", !.mirror = Mirror]
    /\ run' = 0
    /\ pc' = "idle"
    /\ dirs' = ref.before.dirs
    /\ ps' = ref.before.ps
    /\ tmp' = ref.tmp
    /\ albums' = ref.before.albums
    /\ nia' = ref.before.nia
    /\ coll' = ref.before.coll
    /\ stats' = NewStats
    /\ hist' = NewHist(FALSE)
    /\ alb' = NoCall /\ nf' = NoCall /\ cs' = NoCall /\ dl' = NoCall
    /\ pr' = NoCall /\ lst' = NoCall /\ wj' = NoCall
    /\ UNCHANGED <<net, remote, cfg>>

\* _sig_int_handler in the first run made from the restored state, after
\* the transport has answered every request so far.
InterruptFirstRun ==
    /\ ~Idle
    /\ run = 1
    /\ ref # NoCall
    /\ ref.status = "taken"
    /\ hist.vfail = {}
    /\ pc' = "interrupted"
    /\ hist' = [hist EXCEPT !.at = pc, !.printed = cfg.statistics]
    /\ ref' = [ref EXCEPT !.status = "interrupted"]
    /\ UNCHANGED <<net, remote, cfg, run, dirs, ps, tmp, albums, nia, coll, stats,
                   alb, nf, cs, dl, pr, lst, wj>>

NextResume ==
    \/ StartRun \/ ChangeRemote
    \/ MirrorAlbums \/ AlbumPage \/ AlbumMember \/ AlbumRmtree \/ AlbumMkdir
    \/ AlbumSymlink \/ AlbumDone
    \/ DlBegin \/ DlGet \/ DlChunk \/ DlRename \/ DlTime \/ DlTime2
    \/ WjCheck \/ WjRename
    \/ PruneBegin \/ PruneDelete \/ PruneReturn
    \/ NiaRmtree \/ NiaMkdir \/ NiaPage \/ NiaMember \/ NiaSymlink
    \/ MirrorCollections \/ CollEnter \/ CollRmtree \/ CollMkdir
    \/ CollSymlink \/ CollChild \/ CollReturn
    \/ PrintStatistics
    \/ Mark \/ Rewind \/ InterruptFirstRun

SpecResume == Init /\ [][NextResume]_vars

\* The interrupted run and the run after it have been made, the transport
\* has answered every request of the three runs, and the later run is
\* complete.
Resumed ==
    /\ ref # NoCall
    /\ ref.status = "interrupted"
    /\ hist.vfail = {}
    /\ run = 2
    /\ pc = "done"

\* C26: a run that is interrupted and a later run that completes against
\* the same remote state leave the files an uninterrupted run from the same
\* pre-run state leaves.
C26_ResumeEqualsUninterrupted == Resumed => Mirror = ref.mirror

-----------------------------------------------------------------------------
(* Statistics on a fatal error *)

\* C27: when a run stops on a fatal error and statistics were requested,
\* the statistics accumulated so far have been printed.
C27_StatisticsOnFatalError ==
    (pc = "aborted" /\ hist.args.statistics) => hist.printed

-----------------------------------------------------------------------------
(* The listing loop and the final checks of the photostream pass *)

\* Every page received so far holds the number of items a well-formed
\* listing of lst.total items holds on it.
WellFormedListing ==
    /\ lst.status # "none"
    /\ lst.total >= 1
    /\ Len(lst.counts) >= 1
    /\ \A p \in 1..Len(lst.counts) : lst.counts[p] = ImpliedCount(lst.total, p)

\* C28: the item-count check of the listing loop never ends the pass on a
\* page of a well-formed listing, also when the total is an exact multiple
\* of NUM_PHOTOS_PER_BATCH.
C28_WellFormedListingAccepted ==
    [][(pc = "lst_page" /\ WellFormedListing') => pc' # "aborted"]_vars

\* The pass has been through its listing: at least one eligible item was
\* handed to _download_photo, every call returned, and none of them wrote
\* or changed a file, the items being present and up to date.
AllUpToDate ==
    /\ pc = "ps_finish"
    /\ lst.file_names # {}
    /\ lst.download_errors = {}
    /\ hist.touched = {}

\* C29: a photostream pass with at least one eligible item, all of them
\* present and up to date locally, does not abort: it goes on to pruning.
C29_UpToDatePassCompletes ==
    [][AllUpToDate => pc' = "prune_begin"]_vars

-----------------------------------------------------------------------------
(* A failed GET *)

\* The step of _download_photo in which the transport answers the GET for
\* the content with a failure.
GetFailureStep ==
    /\ pc = "dl_get"
    /\ pc' # "dl_chunk"

\* C30: when the GET for an item's content fails, the content file and the
\* sidecar of the item are as they were before _download_photo was called,
\* so that the decision of a later run is again to fetch the item.
C30_FailedGetLeavesFiles ==
    [][GetFailureStep =>
          /\ ps' = ps
          /\ FileData(ps', dl.base) = dl.prior
          /\ ShouldDownload(dl.photo, dl.base, ps')]_vars

\* The GET for a newer version of a photo whose content file and sidecar
\* are on disk has failed and has ended the run.
C30_Witness ==
    /\ pc = "aborted"
    /\ hist.pfail
    /\ dl.status = "called"
    /\ dl.prior # NoFile
    /\ MetadataBasename(dl.base) \in DOMAIN ps

-----------------------------------------------------------------------------
(* Termination of a run *)

\* The steps of a run that is under way.
RunStep ==
    \/ MirrorAlbums \/ AlbumPage \/ AlbumMember \/ AlbumRmtree \/ AlbumMkdir
    \/ AlbumSymlink \/ AlbumDone
    \/ DlBegin \/ DlGet \/ DlChunk \/ DlRename \/ DlTime \/ DlTime2
    \/ WjCheck \/ WjRename
    \/ PruneBegin \/ PruneDelete \/ PruneReturn
    \/ NiaRmtree \/ NiaMkdir \/ NiaPage \/ NiaMember \/ NiaSymlink
    \/ MirrorCollections \/ CollEnter \/ CollRmtree \/ CollMkdir
    \/ CollSymlink \/ CollChild \/ CollReturn
    \/ PrintStatistics

\* Runs with the same arguments, against an account that may change
\* between two runs.
NextTerm == StartRun \/ ChangeRemote \/ RunStep

\* The process, once started, keeps taking steps until it exits.
SpecTerm == Init /\ [][NextTerm]_vars /\ WF_vars(RunStep)

\* ceil(n / NUM_PHOTOS_PER_BATCH), by its definition: the least number of
\* pages of NUM_PHOTOS_PER_BATCH items that hold n items.
Ceil(n) ==
    CHOOSE k \in 0..n :
        /\ k * NUM_PHOTOS_PER_BATCH >= n
        /\ \A j \in 0..n : j * NUM_PHOTOS_PER_BATCH >= n => j >= k

\* The paging loop of the current album has ended: alb.page - 1 requests
\* were made for it.
AlbumPagingDone ==
    /\ alb.status # "none"
    /\ alb.album # NoFile
    /\ pc \in {"album_rmtree", "album_mkdir", "album_symlink", "album_done"}

\* The eligible records of page p of the unassigned items of the account
\* the run is made against.
EligibleOnPage(p) ==
    {n \in 1..Len(NotInSetPage(hist.account, p)) :
        IsEligible(NotInSetPage(hist.account, p)[n], hist.args)}

\* The loops of a run make the requests and the visits they are meant to.
LoopsAsClaimed ==
    /\ AlbumPagingDone =>
          alb.page - 1 = Ceil(Len(hist.account.members[AlbumOf(alb).id]))
    /\ nf.status # "none" => nf.page >= 1
    /\ nf.status = "returned" =>
          /\ EligibleOnPage(nf.page) = {}
          /\ \A p \in 1..(nf.page - 1) : EligibleOnPage(p) # {}
    /\ \A i, j \in 1..Len(hist.visited) :
          i # j => hist.visited[i] # hist.visited[j]

\* C31: a run against a finite remote state terminates: the album paging
\* loop makes exactly ceil(member count / NUM_PHOTOS_PER_BATCH) requests
\* per album, the loop of the unassigned items requests the pages in order
\* and stops at the first page with no eligible item, and the collection
\* recursion visits each node of the tree at most once.
C31_RunTerminates ==
    /\ []LoopsAsClaimed
    /\ (~Idle) ~> Idle

\* A run has ended after two requests for an album of three members and
\* after the loop of the unassigned items has gone past its first page.
C31_Witness ==
    /\ pc = "done"
    /\ Len(hist.account.albums) >= 1
    /\ Len(hist.account.members[71]) > NUM_PHOTOS_PER_BATCH
    /\ nf.status = "returned"
    /\ nf.page >= 2

=============================================================================
